---- MODULE Spec2Model ----
(***************************************************************************)
(* A model of rhizome's Resource (src/unnamed/part_005): a graph of        *)
(* lazily evaluated, memoised, invalidatable resources, together with the  *)
(* promise machinery of the JavaScript runtime it runs on (a FIFO queue of *)
(* continuations).  The older ResourceNode class (src/src/resource-node.ts)*)
(* is modelled further down for its restart counter.                       *)
(***************************************************************************)
EXTENDS Naturals, Sequences, FiniteSets, TLC

\* Bounds of the exploration, per graph: the evaluate() calls the host issues,
\* the invalidate() calls of the host that change a status, and the
\* evaluation promises created in one run.
SoloCalls == 2
SoloInvalidates == 1
SoloPromises == 3
ChainCalls == 2
ChainInvalidates == 1
ChainPromises == 6
ErrorableCalls == 2
ErrorableInvalidates == 1
ErrorablePromises == 4
\* the same for the deeper exploration of a single node (SpecDeep)
DeepCalls == 3
DeepInvalidates == 2
DeepPromises == 4

StrictCalls == 2
StrictInvalidates == 1
StrictPromises == 3
DeferredCalls == 2
DeferredInvalidates == 1
DeferredPromises == 4

ImmediateCalls == 3

ImmediateInvalidates == 2

ImmediatePromises == 6
LifecycleCalls == 2
LifecycleInvalidates == 1
LifecyclePromises == 3
LifecycleDestroys == 2
BriefCalls == 1
BriefInvalidates == 1
BriefPromises == 2
BriefDestroys == 1
TeardownCalls == 2
TeardownInvalidates == 1
TeardownPromises == 4
TeardownDestroys == 2
TolerantCalls == 4
TolerantInvalidates == 3
TolerantPromises == 8

ObservedCalls == 2

ObservedInvalidates == 1

ObservedPromises == 4

FragileCalls == 2

FragileInvalidates == 1

FragilePromises == 4

DiamondCalls == 1

DiamondInvalidates == 1

DiamondPromises == 5

Nodes == {"A", "B", "C", "D"}

\* The budget of the exploration of one ResourceNode.
NodeCalls == 1
NodeMarks == 3
NodeDestroys == 1
NodePromises == 4

TreeCalls == 2

TreeUpdates == 1

TreePromises == 4

MAX_CONTINUOUS_EVALUATION_COUNT == 2

VARIABLES
  config,               \* the graph handed to the constructors (fixed afterwards)
  status,               \* Resource.internalStatus, per node
  error,                \* Resource.error, per node
  evaluationPromise,    \* Resource.evaluationPromise, per node: a promise id, 0 = undefined
  erroredDependencies,  \* Resource.erroredDependencies, per node: a set of keys
  invalidationCallback, \* Resource.invalidationCallback, per node: the stored hook
  recentCallChain,      \* Resource.recentCallChain, per node
  dependents,           \* Resource.dependents, per node, in insertion order
  promises,             \* every promise made by createEvaluationPromise, by id
  calls,                \* every evaluate() call, by id
  queue,                \* the runtime's queue of continuations
  evaluatorCalls,       \* history: number of evaluator invocations, per node
  invalidations,        \* history: number of status changes made by invalidate(), per node
  hostInvalidates,      \* history: number of invalidate() calls of the host that changed a status
  raceMark,             \* history: the last invalidate() that raced an evaluation
  freshFrom,            \* history: the last invalidate() of an evaluated node
  onInvalidatedCallbacks,    \* Resource.onInvalidatedCallbacks, per node: is the host's observer registered
  onErrorableErrorCallbacks, \* Resource.onErrorableErrorCallbacks, per node: likewise
  invalidatedNotices,   \* history: calls of the onInvalidated observer, per node
  errorableNotices,     \* history: calls of the onErrorableError observer, per node: <<key, cycle>>
  destroyCalls,         \* every destroy() call, by id
  teardowns,            \* history: the hooks invoked by destroy(), in order
  callbackCalls,        \* history: the hooks invoked by evaluation cycles, in order
  onEvaluatedCallbacks, \* Resource.onEvaluatedCallbacks, per node: is the host's observer registered
  evaluatedNotices,     \* history: calls of the onEvaluated observer, per node: the cycle, the result given and the status then
  invalidatedChains     \* history: what each call of the onInvalidated observer was given, per node

resourceVars ==
  <<config, status, error, evaluationPromise, erroredDependencies,
    invalidationCallback, recentCallChain, dependents, promises, calls,
    queue, evaluatorCalls, invalidations, hostInvalidates, raceMark,
    freshFrom, onInvalidatedCallbacks, onErrorableErrorCallbacks,
    invalidatedNotices, errorableNotices, destroyCalls, teardowns,
    callbackCalls, onEvaluatedCallbacks, evaluatedNotices,
    invalidatedChains>>

\* One ResourceNode, the predecessor of Resource that counts its restarts.
VARIABLES
  nodeStatus,                 \* ResourceNode.#status
  nodeError,                  \* ResourceNode.error
  valuePromise,               \* ResourceNode.#valuePromise: a promise id, 0 = undefined
  continuousEvaluationCount,  \* ResourceNode.#continuousEvaluationCount
  nodePromises,               \* every promise made by #createValuePromise, by id
  nodeCalls,                  \* every evaluate() call, by id
  nodeQueue,                  \* the runtime's queue of continuations
  warnings,                   \* history: number of console.warn calls
  marks,                      \* history: number of markStale() calls that changed the status
  destroys                    \* history: number of destroy() calls

nodeVars ==
  <<nodeStatus, nodeError, valuePromise, continuousEvaluationCount,
    nodePromises, nodeCalls, nodeQueue, warnings, marks, destroys>>

\* The README's minimal tree of ResourceNodes: a number A and a text B made from it.
VARIABLES
  treeValue,          \* A.value, the field the README's class A returns from initialize
  treeStatus,         \* ResourceNode.#status, per node of the tree
  treeValuePromise,   \* ResourceNode.#valuePromise, per node: a promise id, 0 = undefined
  treePromises,       \* every promise made by #createValuePromise, by id
  treeCalls,          \* every evaluate() call, by id
  treeQueue,          \* the runtime's queue of continuations
  treeUpdates         \* history: the updateValue() calls, with A's status at each

treeVars ==
  <<treeValue, treeStatus, treeValuePromise, treePromises, treeCalls,
    treeQueue, treeUpdates>>

vars == <<resourceVars, nodeVars, treeVars>>

----------------------------------------------------------------------------
\* Values and errors.  All of them are records of one shape, so that any two
\* can be compared: tag, the node, a number and a sequence of sub-results.

NoResult == [tag |-> "none", node |-> "", n |-> 0, sub |-> <<>>]

\* `undefined`, as found in a dependency map under a key that was never set.
Absent == [tag |-> "absent", node |-> "", n |-> 0, sub |-> <<>>]

\* The EvaluationResult of the i-th invocation of n's evaluator on `args`.
\* The evaluator is arbitrary: no two invocations are assumed to agree.
EvaluationResult(n, i, args) == [tag |-> "value", node |-> n, n |-> i, sub |-> args]

\* The error thrown by the i-th invocation of n's evaluator.
EvaluatorError(n, i) == [tag |-> "thrown", node |-> n, n |-> i, sub |-> <<>>]

\* new ResourceReevaluationError(cause), made by evaluate() call c on node n,
\* or by a cycle of n for its observers (c = 0).
ResourceReevaluationError(n, c, cause) ==
  [tag |-> "reevaluation", node |-> n, n |-> c, sub |-> <<cause>>]

\* The exception thrown by the host's observer of the given kind on node n.
ObserverError(n, kind) == [tag |-> kind, node |-> n, n |-> 0, sub |-> <<>>]

\* An invalidation callback (the `invalidate` of an EvaluationResult).
NoHook == [node |-> "", n |-> 0]
Hook(n, i) == [node |-> n, n |-> i]

\* The exception thrown by the invalidation callback `hook`.
HookError(hook) == [tag |-> "callback", node |-> hook.node, n |-> hook.n, sub |-> <<>>]

----------------------------------------------------------------------------
\* The graphs explored.  deps[n] lists n's dependencies in key order (the key
\* of a dependency is the name of the node it maps to); order is the order in
\* which the nodes are constructed.

Range(f) == {f[i] : i \in DOMAIN f}

ChainGraph ==
  [deps |-> [n \in Nodes |-> CASE n = "B" -> <<"A">> [] n = "C" -> <<"B">> [] OTHER -> <<>>],
   order |-> <<"A", "B", "C">>,
   errorables |-> [n \in Nodes |-> {}],
   when |-> [n \in Nodes |-> "invalidated"],
   mayThrow |-> {},
   hooks |-> {},
   evaluated |-> {"C"},
   invalidated |-> {"A"},
   patient |-> FALSE,
   throws |-> {},
   hookFails |-> {},
   destroyed |-> {}, destroys |-> 0,
   calls |-> ChainCalls, invalidates |-> ChainInvalidates,
   promises |-> ChainPromises]

SoloGraph ==
  [ChainGraph EXCEPT !.evaluated = {"A"}, !.mayThrow = {"A"}, !.hooks = {"A"},
                     !.calls = SoloCalls, !.invalidates = SoloInvalidates,
                     !.promises = SoloPromises]

DeepGraph ==
  [SoloGraph EXCEPT !.calls = DeepCalls, !.invalidates = DeepInvalidates,
                    !.promises = DeepPromises]

ErrorableGraph ==
  [deps |-> [n \in Nodes |-> IF n = "B" THEN <<"A", "C">> ELSE <<>>],
   order |-> <<"A", "C", "B">>,
   errorables |-> [n \in Nodes |-> IF n = "B" THEN {"A"} ELSE {}],
   when |-> [n \in Nodes |-> "invalidated"],
   mayThrow |-> {"A"},
   hooks |-> {},
   evaluated |-> {"B"},
   invalidated |-> {"A"},
   patient |-> FALSE,
   throws |-> {},
   hookFails |-> {},
   destroyed |-> {}, destroys |-> 0,
   calls |-> ErrorableCalls, invalidates |-> ErrorableInvalidates,
   promises |-> ErrorablePromises]

Graphs == {SoloGraph, ChainGraph, ErrorableGraph}

\* B depends on A, and A invalidates its dependents when it is reevaluated
\* (dependentsInvalidatedWhen: "reevaluated").
DeferredGraph ==
  [ChainGraph EXCEPT !.deps = [n \in Nodes |-> IF n = "B" THEN <<"A">> ELSE <<>>],
                     !.when = [n \in Nodes |-> IF n = "A" THEN "reevaluated"
                                                ELSE "invalidated"],
                     !.evaluated = {"A", "B"}, !.invalidated = {"A"},
                     !.calls = DeferredCalls, !.invalidates = DeferredInvalidates,
                     !.promises = DeferredPromises]

\* The same two nodes with the default timing: invalidate() on A propagates
\* to B at once.
ImmediateGraph ==
  [DeferredGraph EXCEPT !.when = [n \in Nodes |-> "invalidated"],
                        !.mayThrow = {"A"}, !.hooks = {"A"}, !.patient = TRUE,
                        !.calls = ImmediateCalls,
                        !.invalidates = ImmediateInvalidates,
                        !.promises = ImmediatePromises]

\* A single node that the host also destroys.
LifecycleGraph ==
  [SoloGraph EXCEPT !.destroyed = {"A"}, !.destroys = LifecycleDestroys,
                    !.calls = LifecycleCalls, !.invalidates = LifecycleInvalidates,
                    !.promises = LifecyclePromises]

\* The same node under a smaller budget.
BriefGraph ==
  [LifecycleGraph EXCEPT !.destroys = BriefDestroys,
                         !.calls = BriefCalls, !.invalidates = BriefInvalidates,
                         !.promises = BriefPromises]

\* B depends on A; the host evaluates B, invalidates either and destroys
\* either, and awaits each call before it issues the next.
TeardownGraph ==
  [LifecycleGraph EXCEPT !.deps = [n \in Nodes |-> IF n = "B" THEN <<"A">> ELSE <<>>],
                         !.evaluated = {"B"}, !.invalidated = {"A", "B"},
                         !.destroyed = {"A", "B"}, !.destroys = TeardownDestroys,
                         !.patient = TRUE,
                         !.calls = TeardownCalls, !.invalidates = TeardownInvalidates,
                         !.promises = TeardownPromises]

\* B depends on A and does not list it in its errorables
\* (resourceThatDoesNotAllowError of the "Can pass errorables" test).
StrictGraph ==
  [ChainGraph EXCEPT !.deps = [n \in Nodes |-> IF n = "B" THEN <<"A">> ELSE <<>>],
                     !.mayThrow = {"A"}, !.evaluated = {"A", "B"},
                     !.invalidated = {"B"},
                     !.calls = StrictCalls, !.invalidates = StrictInvalidates,
                     !.promises = StrictPromises]

\* B depends on A and lists it in its errorables
\* (resourceThatAllowsError of the same test), evaluated cycle after cycle by
\* a host that awaits each call before it issues the next, as the test does.
TolerantGraph ==
  [StrictGraph EXCEPT !.errorables = [n \in Nodes |-> IF n = "B" THEN {"A"} ELSE {}],
                      !.evaluated = {"B"}, !.invalidated = {"A"},
                      !.patient = TRUE,
                      !.calls = TolerantCalls, !.invalidates = TolerantInvalidates,
                      !.promises = TolerantPromises]

\* D depends on B and C, which both depend on A; the host evaluates D.
DiamondGraph ==
  [ChainGraph EXCEPT !.deps = [n \in Nodes |->
                                 CASE n = "A" -> <<>>
                                   [] n = "D" -> <<"B", "C">>
                                   [] OTHER -> <<"A">>],
                     !.order = <<"A", "B", "C", "D">>,
                     !.evaluated = {"D"}, !.invalidated = {"A"},
                     !.calls = DiamondCalls, !.invalidates = DiamondInvalidates,
                     !.promises = DiamondPromises]

\* The constructor: every node adds itself to the dependents of each of its
\* dependencies, so dependents are kept in construction order.
Constructor(g, n) == SelectSeq(g.order, LAMBDA m : n \in Range(g.deps[m]))

RECURSIVE TransitiveDependencies(_)
TransitiveDependencies(n) ==
  Range(config.deps[n]) \cup
  UNION {TransitiveDependencies(d) : d \in Range(config.deps[n])}

NodeInit ==
  /\ nodeStatus = "uninitialized"
  /\ nodeError = "none"
  /\ valuePromise = 0
  /\ continuousEvaluationCount = 0
  /\ nodePromises = <<>>
  /\ nodeCalls = <<>>
  /\ nodeQueue = <<>>
  /\ warnings = 0
  /\ marks = 0
  /\ destroys = 0

\* ---- the README's tree: `const a = new A(123); const b = new B({ a });`
TreeNodes == {"A", "B"}

TreeDependencies == [A |-> <<>>, B |-> <<"A">>]

\* The numbers the README's example stores in A.
TreeValues == {"123", "456"}

NoValue == "none"

TreeInit ==
  /\ treeValue = "123"
  /\ treeStatus = [n \in TreeNodes |-> "uninitialized"]
  /\ treeValuePromise = [n \in TreeNodes |-> 0]
  /\ treePromises = <<>>
  /\ treeCalls = <<>>
  /\ treeQueue = <<>>
  /\ treeUpdates = <<>>

InitWith(graphs) ==
  /\ NodeInit
  /\ TreeInit
  /\ config \in graphs
  /\ status = [n \in Nodes |-> "unevaluated"]
  /\ error = [n \in Nodes |-> NoResult]
  /\ evaluationPromise = [n \in Nodes |-> 0]
  /\ erroredDependencies = [n \in Nodes |-> {}]
  /\ invalidationCallback = [n \in Nodes |-> NoHook]
  /\ recentCallChain = [n \in Nodes |-> <<>>]
  /\ dependents = [n \in Nodes |-> Constructor(config, n)]
  /\ promises = <<>>
  /\ calls = <<>>
  /\ queue = <<>>
  /\ evaluatorCalls = [n \in Nodes |-> 0]
  /\ invalidations = [n \in Nodes |-> 0]
  /\ hostInvalidates = 0
  /\ raceMark = [n \in Nodes |-> 0]
  /\ freshFrom = [n \in Nodes |-> 0]
  /\ onInvalidatedCallbacks = [n \in Nodes |-> TRUE]
  /\ onErrorableErrorCallbacks = [n \in Nodes |-> TRUE]
  /\ invalidatedNotices = [n \in Nodes |-> 0]
  /\ errorableNotices = [n \in Nodes |-> <<>>]
  /\ destroyCalls = <<>>
  /\ teardowns = <<>>
  /\ callbackCalls = <<>>
  /\ onEvaluatedCallbacks = [n \in Nodes |-> TRUE]
  /\ evaluatedNotices = [n \in Nodes |-> <<>>]
  /\ invalidatedChains = [n \in Nodes |-> <<>>]

----------------------------------------------------------------------------
\* The operations are written as functions on a record of the whole state, so
\* that one operation can call another (evaluate() creates promises, which
\* call evaluate() on the dependencies, and so on).

State ==
  [status |-> status, error |-> error, ep |-> evaluationPromise,
   errdeps |-> erroredDependencies, hook |-> invalidationCallback,
   chain |-> recentCallChain, promises |-> promises, calls |-> calls,
   queue |-> queue, evcalls |-> evaluatorCalls, invals |-> invalidations,
   mark |-> raceMark, fresh |-> freshFrom, dependents |-> dependents,
   oninv |-> onInvalidatedCallbacks, onerr |-> onErrorableErrorCallbacks,
   invnot |-> invalidatedNotices, errnot |-> errorableNotices,
   destroys |-> destroyCalls, teardowns |-> teardowns,
   cbcalls |-> callbackCalls, onev |-> onEvaluatedCallbacks,
   evnot |-> evaluatedNotices, invch |-> invalidatedChains,
   threw |-> FALSE, observerError |-> NoResult]

RECURSIVE SumOver(_, _)
SumOver(S, f) ==
  IF S = {} THEN 0
  ELSE LET x == CHOOSE y \in S : TRUE IN f[x] + SumOver(S \ {x}, f)

\* history: the invalidations so far of n and of its transitive dependencies
InvalidationsOf(s, n) == SumOver({n} \cup TransitiveDependencies(n), s.invals)

\* The promises of node n that are pending and are not the restart of another.
InFlight(s, n) ==
  {p \in DOMAIN s.promises :
     /\ s.promises[p].node = n
     /\ s.promises[p].state = "pending"
     /\ s.promises[p].pc # "dead"
     /\ s.promises[p].parent = 0}

\* ---- the status setter (part_005:104-110)
\* A variant that leaves the stored error alone.
SetStatus_Keeps(s, n, value) == [s EXCEPT !.status[n] = value]

\* A variant that also drops the evaluation promise when the node leaves
\* evaluating and evaluated.
SetStatus_Drops(s, n, value) ==
  [s EXCEPT !.status[n] = value,
            !.error[n] = IF value # "errored" THEN NoResult ELSE @,
            !.ep[n] = IF value \in {"evaluating", "evaluated"} THEN @ ELSE 0]

SetStatus(s, n, value) ==
  [s EXCEPT !.status[n] = value,
            !.error[n] = IF value # "errored" THEN NoResult ELSE @]

\* ---- the decisions of evaluate() (part_005:165-182)
\* A variant in which a finished evaluation is not reused.
StartsNewCycle_Forgetful(ep, st) ==
  ep = 0 \/ st \in {"unevaluated", "invalidated", "evaluated"}

\* A variant in which a running evaluation is not shared.
StartsNewCycle_Unshared(ep, st) ==
  ep = 0 \/ st \in {"unevaluated", "invalidated", "evaluating"}

\* A variant in which every evaluate() starts a cycle.
StartsNewCycle_Always(ep, st) == TRUE

StartsNewCycle(ep, st) == ep = 0 \/ st \in {"unevaluated", "invalidated"}

\* A variant that awaits the stored promise again instead of throwing.
ThrowsStoredError_Retries(ep, st) == FALSE

ThrowsStoredError(ep, st) == ep # 0 /\ st = "errored"

\* ---- the decision of invalidate() (part_005:128-153)
\* A variant that also acts on a node that is unevaluated or invalidated.
InvalidateActs_Eager(st) == st # "destroyed"

InvalidateActs(st) == st \in {"evaluated", "evaluating", "errored"}

\* A variant in which invalidate() ignores a destroyed node.
InvalidateThrows_Never(st) == FALSE

InvalidateThrows(st) == st = "destroyed"

\* A variant in which invalidate() leaves the dependents alone.
PropagatesOnInvalidate_Never(n) == FALSE

PropagatesOnInvalidate(n) == config.when[n] = "invalidated"

\* A variant in which a settled cycle leaves the dependents alone.
PropagatesOnReevaluation_Never(n) == FALSE

PropagatesOnReevaluation(n) == config.when[n] = "reevaluated"

\* ---- the decision after the evaluator returned (part_005:276-298)
\* A variant that never restarts the evaluation.
AfterEvaluator_NoRestart(st) ==
  IF st \in {"evaluating", "errored"} THEN "evaluated" ELSE "resolve"

AfterEvaluator(st) ==
  CASE st \in {"evaluating", "errored"} -> "evaluated"
    [] st \in {"unevaluated", "invalidated"} -> "reevaluate"
    [] OTHER -> "resolve"

\* ---- this.erroredDependencies.has(key) (part_005:340)
\* A variant that reports every failure.
AlreadyReported_Never(errdeps, key) == FALSE

AlreadyReported(errdeps, key) == key \in errdeps

\* ---- options.errorables.includes(key) (part_005:346)
\* A variant that ignores the errorables option.
IsAllowedToError_Never(n, key) == FALSE

IsAllowedToError(n, key) == key \in config.errorables[n]

\* ---- a callback of the host that throws (part_005:208, 231, 252)
ObserverThrows(kind) == kind \in config.throws

Enqueue(s, job) == [s EXCEPT !.queue = Append(@, job)]

\* ---- Promise.allSettled(dependencyPromises) (part_005:328-330)
\* A variant that goes on as soon as the first dependency has settled.
AllSettled_First(s, p) ==
  \/ s.promises[p].depCalls = <<>>
  \/ s.calls[s.promises[p].depCalls[1]].state # "waiting"

AllSettled(s, p) ==
  \A i \in DOMAIN s.promises[p].depCalls :
     s.calls[s.promises[p].depCalls[i]].state # "waiting"

\* ---- [...invalidationChain, this] (part_005:139)
\* A variant that starts the chain again at every node.
NewCallChain_Restarted(chain, n) == <<n>>

NewCallChain(chain, n) == Append(chain, n)

\* ---- invalidate() and invalidateDependents() (part_005:125-162)
RECURSIVE InvalidateOp(_, _, _), InvalidateDependents(_, _, _, _)

InvalidateOp(s, n, chain) ==
  IF s.threw THEN s
  ELSE IF InvalidateThrows(s.status[n]) THEN [s EXCEPT !.threw = TRUE]
  ELSE IF ~InvalidateActs(s.status[n]) THEN s
  ELSE
    LET old == s.status[n]
        s1 == SetStatus(s, n, "invalidated")
        newCallChain == NewCallChain(chain, n)
        s2 == [s1 EXCEPT
                 !.chain[n] = newCallChain,
                 !.invals[n] = @ + 1,
                 !.invnot[n] = IF s.oninv[n] THEN @ + 1 ELSE @,
                 !.invch[n] = IF s.oninv[n]
                              THEN Append(@, [callChain |-> chain,
                                              status |-> s1.status[n]])
                              ELSE @,
                 !.mark[n] = IF old = "evaluating" THEN s.evcalls[n] + 1 ELSE 0,
                 !.fresh[n] = IF old = "evaluated" THEN s.evcalls[n] + 1 ELSE @,
                 !.promises = [p \in DOMAIN @ |->
                    IF @[p].node = n /\ @[p].pc = "evaluator"
                    THEN [@[p] EXCEPT !.dirty = TRUE] ELSE @[p]],
                 !.calls = [c \in DOMAIN @ |->
                    IF /\ @[c].node = n /\ @[c].state = "waiting"
                       /\ old = "evaluating"
                       /\ s.promises[@[c].promise].state = "pending"
                    THEN [@[c] EXCEPT !.hit = TRUE] ELSE @[c]]]
    IN IF s.oninv[n] /\ ObserverThrows("onInvalidated")
       THEN \* triggerOnInvalidated throws: invalidate() ends after line 138
            [s2 EXCEPT !.chain[n] = s.chain[n], !.threw = TRUE,
                       !.observerError = ObserverError(n, "onInvalidated")]
       ELSE IF PropagatesOnInvalidate(n)
       THEN InvalidateDependents(s2, n, newCallChain, 1)
       ELSE s2

\* A variant that invalidates every node of the graph that can be invalidated.
InvalidateDependents_Everyone(s, n, callChain, i) ==
  [s EXCEPT !.status = [m \in Nodes |-> IF InvalidateActs(s.status[m])
                                          THEN "invalidated" ELSE s.status[m]]]

InvalidateDependents(s, n, callChain, i) ==
  IF s.threw \/ i > Len(s.dependents[n]) THEN s
  ELSE InvalidateDependents(InvalidateOp(s, s.dependents[n][i], callChain),
                            n, callChain, i + 1)

\* ---- resolve(result) / reject(error) of a promise, then the `finally`
\* block of createEvaluationPromise (part_005:300-311).  Settling a promise
\* queues the continuation of everything awaiting it: the evaluate() calls,
\* and the promise that restarted into it.
Waiters(s, p) ==
  SelectSeq([c \in DOMAIN s.calls |-> c],
            LAMBDA c : s.calls[c].promise = p /\ s.calls[c].state = "waiting")

RECURSIVE EnqueueCalls(_, _)
EnqueueCalls(s, cs) ==
  IF cs = <<>> THEN s
  ELSE EnqueueCalls(Enqueue(s, <<"call", Head(cs)>>), Tail(cs))

\* ---- triggerOnEvaluated after resolve(result) or reject(error)
\* (part_005:300-306, 204-213).  An observer that throws on the value throws
\* into the catch block, where reject() has no effect on the resolved promise
\* and the observers are triggered again, with a ResourceReevaluationError;
\* what they throw then is thrown into the executor and reaches no caller.
TriggerOnEvaluated(s, p, state) ==
  LET n == s.promises[p].node
      settled == s.promises[p].result
      value == [cycle |-> p, kind |-> "value", status |-> s.status[n],
                result |-> settled]
      failure(cause) ==
        [cycle |-> p, kind |-> "error", status |-> s.status[n],
         result |-> ResourceReevaluationError(n, 0, cause)]
  IN IF ~s.onev[n] THEN s
     ELSE IF state = "fulfilled" /\ ObserverThrows("onEvaluated")
     THEN [s EXCEPT !.evnot[n] =
             @ \o <<value, failure(ObserverError(n, "onEvaluated"))>>]
     ELSE [s EXCEPT !.evnot[n] =
             Append(@, IF state = "fulfilled" THEN value ELSE failure(settled))]

Settle(s, p, state, result, stale) ==
  LET n == s.promises[p].node
      s1 == [s EXCEPT !.promises[p].state = state,
                      !.promises[p].result = result,
                      !.promises[p].stale = stale,
                      !.promises[p].raced = s.mark[n],
                      !.promises[p].pc = "done"]
      s2 == EnqueueCalls(s1, Waiters(s1, p))
      s3 == TriggerOnEvaluated(
              IF s.promises[p].parent # 0
              THEN Enqueue(s2, <<"nested", s.promises[p].parent>>) ELSE s2,
              p, state)
  IN IF PropagatesOnReevaluation(n)
     THEN \* what the finally block throws is thrown into the executor
          [InvalidateDependents(s3, n, s3.chain[n], 1) EXCEPT
             !.threw = FALSE, !.observerError = NoResult]
     ELSE s3

----------------------------------------------------------------------------
\* ---- evaluate() up to its await (part_005:164-185), createEvaluationPromise()
\* up to its first await (part_005:259-270) and evaluateDependencies() up to
\* its await (part_005:318-330).  They call one another.

NewPromise(n, parent) ==
  [node |-> n, pc |-> "deps", state |-> "pending", result |-> NoResult,
   depCalls |-> <<>>, args |-> <<>>, inv |-> 0, child |-> 0, parent |-> parent,
   awaiting |-> NoHook,
   \* history
   dirty |-> FALSE, stale |-> FALSE, raced |-> 0, runs |-> 0, failedAt |-> "",
   turn |-> 0]

\* The nodes whose evaluators evaluate() on n is about to invoke: n if it is
\* unevaluated or invalidated, and then, through evaluateDependencies(), the
\* same for each of its dependencies (part_005:177-180, 318-330).
RECURSIVE Due(_, _)
Due(s, n) ==
  IF s.status[n] \in {"unevaluated", "invalidated"}
  THEN {n} \cup UNION {Due(s, d) : d \in Range(config.deps[n])}
  ELSE {}

Closure(n) == {n} \cup TransitiveDependencies(n)

NewCall(s, n, q, owner) ==
  [node |-> n, promise |-> q, owner |-> owner, state |-> "waiting",
   result |-> NoResult,
   \* history
   statusAt |-> s.status[n],
   prior |-> {c \in DOMAIN s.calls :
                s.calls[c].node = n /\ s.calls[c].state # "waiting"},
   racers |-> {c \in DOMAIN s.calls :
                s.calls[c].node = n /\ s.calls[c].state = "waiting" /\ s.calls[c].hit},
   invAt |-> InvalidationsOf(s, n), invEnd |-> 0,
   runsAt |-> s.evcalls[n], runsEnd |-> 0, clean |-> InFlight(s, n) = {},
   hit |-> FALSE, freshFrom |-> s.fresh[n],
   \* history of the host's calls only
   staleAt |-> IF owner # 0 THEN {}
               ELSE {m \in Closure(n) : s.status[m] \in {"unevaluated", "invalidated"}},
   dueAt |-> IF owner # 0 THEN {} ELSE Due(s, n),
   quiet |-> owner = 0 /\ \A m \in Closure(n) : InFlight(s, m) = {},
   evAt |-> IF owner # 0 THEN <<>> ELSE s.evcalls,
   evEnd |-> <<>>]

RECURSIVE EvaluateOp(_, _, _), CreateEvaluationPromise(_, _, _), CallDependencies(_, _, _)

EvaluateOp(s, n, owner) ==
  IF ThrowsStoredError(s.ep[n], s.status[n])
  THEN \* throw this.error: the call is rejected before it awaits anything
       [s EXCEPT !.calls = Append(@,
          [NewCall(s, n, 0, owner) EXCEPT
             !.state = "rejected", !.result = s.error[n],
             !.invEnd = InvalidationsOf(s, n), !.runsEnd = s.evcalls[n]]),
          !.mark[n] = 0, !.fresh[n] = 0]
  ELSE
    LET fresh == StartsNewCycle(s.ep[n], s.status[n])
        q == IF fresh THEN Len(s.promises) + 1 ELSE s.ep[n]
        s1 == IF fresh
              THEN [CreateEvaluationPromise(s, n, 0) EXCEPT !.ep[n] = q]
              ELSE s
        c == Len(s1.calls) + 1
        s2 == [s1 EXCEPT !.calls = Append(@, NewCall(s, n, q, owner)),
                         !.mark[n] = 0, !.fresh[n] = 0]
    IN \* awaiting a promise that is already settled continues a tick later
       IF s2.promises[q].state # "pending" THEN Enqueue(s2, <<"call", c>>) ELSE s2

CallDependencies(s, p, i) ==
  LET n == s.promises[p].node IN
  IF i > Len(config.deps[n]) THEN s
  ELSE LET s1 == EvaluateOp(s, config.deps[n][i], p)
       IN CallDependencies(
            [s1 EXCEPT !.promises[p].depCalls = Append(@, Len(s1.calls))], p, i + 1)

CreateEvaluationPromise(s, n, parent) ==
  LET p == Len(s.promises) + 1 IN
  IF s.status[n] = "destroyed"
  THEN \* the executor throws before its try: the promise never settles
       [s EXCEPT !.promises = Append(@, [NewPromise(n, parent) EXCEPT !.pc = "dead"])]
  ELSE
    LET s1 == SetStatus([s EXCEPT !.promises = Append(@, NewPromise(n, parent))],
                        n, "evaluating")
        s2 == CallDependencies(s1, p, 1)
    IN IF AllSettled(s2, p) THEN Enqueue(s2, <<"deps", p>>) ELSE s2

\* ---- the loop of evaluateDependencies() over the settled results
\* (part_005:332-360).  Yields the state, the dependency map and what was
\* thrown (NoResult when nothing was).
RECURSIVE DependencyLoop(_, _, _, _)
DependencyLoop(s, p, i, dependencies) ==
  LET n == s.promises[p].node IN
  IF i > Len(config.deps[n])
  THEN [s |-> s, dependencies |-> dependencies, thrown |-> NoResult]
  ELSE
    LET key == config.deps[n][i]
        result == s.calls[s.promises[p].depCalls[i]]
    IN IF result.state = "fulfilled"
       THEN DependencyLoop([s EXCEPT !.errdeps[n] = @ \ {key}], p, i + 1,
                           [dependencies EXCEPT ![i] = result.result])
       ELSE IF AlreadyReported(s.errdeps[n], key)
       THEN DependencyLoop(s, p, i + 1, dependencies)
       ELSE IF IsAllowedToError(n, key)
       THEN LET s1 == [s EXCEPT !.errdeps[n] = @ \cup {key},
                        !.errnot[n] = IF s.onerr[n] THEN Append(@, <<key, p>>) ELSE @]
            IN IF s.onerr[n] /\ ObserverThrows("onErrorableError")
               THEN [s |-> s1, dependencies |-> dependencies,
                     thrown |-> ObserverError(n, "onErrorableError")]
               ELSE DependencyLoop(s1, p, i + 1, dependencies)
       ELSE [s |-> [s EXCEPT !.errdeps[n] = @ \cup {key}],
             dependencies |-> dependencies, thrown |-> result.result]

\* ---- the evaluator is invoked (part_005:273)
InvokeEvaluator(s, p) ==
  LET n == s.promises[p].node IN
  [s EXCEPT !.evcalls[n] = @ + 1,
            !.promises[p].inv = s.evcalls[n] + 1,
            !.promises[p].pc = "evaluator",
            !.promises[p].dirty = FALSE,
            !.promises[p].runs = @ + 1]

\* ---- after `await this.evaluateDependencies()` (part_005:270-272): the
\* stored invalidation callback, if any, is invoked and awaited.
AfterDependencies(s, p) ==
  LET n == s.promises[p].node
      r == DependencyLoop(s, p, 1, [i \in DOMAIN config.deps[n] |-> Absent])
      turn == Cardinality({q \in DOMAIN s.promises :
                             s.promises[q].node = n /\ s.promises[q].turn > 0}) + 1
      s1 == [r.s EXCEPT !.promises[p].args = r.dependencies,
                        !.promises[p].turn = turn]
  IN IF r.thrown # NoResult
     THEN Settle([s1 EXCEPT !.promises[p].failedAt = "deps"], p, "rejected",
                 r.thrown, FALSE)
     ELSE IF s1.hook[n] = NoHook
     THEN Enqueue([s1 EXCEPT !.promises[p].pc = "hook"], <<"hook", p>>)
     ELSE [s1 EXCEPT !.promises[p].pc = "hook",
                     !.promises[p].awaiting = s1.hook[n],
                     !.cbcalls = Append(@, s1.hook[n])]

\* ---- after the evaluator returned `result` (part_005:274-302)
AfterEvaluatorReturned(s, p, hook) ==
  LET n == s.promises[p].node
      result == EvaluationResult(n, s.promises[p].inv, s.promises[p].args)
      s1 == [s EXCEPT !.hook[n] = hook]
      next == AfterEvaluator(s1.status[n])
  IN CASE next = "evaluated" ->
            Settle(SetStatus(s1, n, "evaluated"), p, "fulfilled", result,
                   s.promises[p].dirty)
       [] next = "resolve" ->
            Settle(s1, p, "fulfilled", result, s.promises[p].dirty)
       [] OTHER ->
            LET q == Len(s1.promises) + 1
            IN [CreateEvaluationPromise(s1, n, p) EXCEPT
                  !.promises[p].pc = "nested", !.promises[p].child = q]

\* ---- after the evaluator threw (part_005:303-306)
AfterEvaluatorThrew(s, p) ==
  LET n == s.promises[p].node
  IN Settle([s EXCEPT !.promises[p].failedAt = "evaluator"], p, "rejected",
            EvaluatorError(n, s.promises[p].inv), FALSE)

\* ---- after the awaited invalidation callback threw (part_005:272, 303-306)
\* A variant in which the failure of the callback is swallowed.
AfterCallbackThrew_Swallowed(s, p) ==
  InvokeEvaluator([s EXCEPT !.promises[p].failedAt = "hook"], p)

AfterCallbackThrew(s, p) ==
  Settle([s EXCEPT !.promises[p].failedAt = "hook"], p, "rejected",
         HookError(s.promises[p].awaiting), FALSE)

\* ---- after `await this.createEvaluationPromise()` (part_005:297-306)
AfterNested(s, p) ==
  LET child == s.promises[s.promises[p].child]
  IN IF child.state = "fulfilled"
     THEN Settle(s, p, "fulfilled", child.result, child.stale)
     ELSE Settle([s EXCEPT !.promises[p].failedAt = "nested"], p, "rejected",
                 child.result, FALSE)

\* ---- after `await this.evaluationPromise` in evaluate() (part_005:184-191)
AfterAwait(s, c) ==
  LET call == s.calls[c]
      n == call.node
      awaited == s.promises[call.promise]
      done == [s EXCEPT !.calls[c].invEnd = InvalidationsOf(s, n),
                        !.calls[c].runsEnd = s.evcalls[n],
                        !.calls[c].evEnd = IF call.owner # 0 THEN <<>> ELSE s.evcalls]
      s1 == IF awaited.state = "fulfilled"
            THEN [done EXCEPT !.calls[c].state = "fulfilled",
                              !.calls[c].result = awaited.result]
            ELSE LET refreshError == ResourceReevaluationError(n, c, awaited.result)
                 IN [SetStatus(done, n, "errored") EXCEPT
                       !.error[n] = refreshError,
                       !.calls[c].state = "rejected",
                       !.calls[c].result = refreshError]
  IN IF call.owner # 0 /\ AllSettled(s1, call.owner)
     THEN Enqueue(s1, <<"deps", call.owner>>) ELSE s1

\* ---- destroy() up to its await (part_005:112-113): the stored invalidation
\* callback, if any, is invoked and awaited.
DestroyOp(s, n) ==
  LET d == Len(s.destroys) + 1 IN
  IF s.hook[n] = NoHook
  THEN Enqueue([s EXCEPT !.destroys = Append(@, [node |-> n, pc |-> "tick",
                                                 awaiting |-> NoHook])],
               <<"destroy", d>>)
  ELSE [s EXCEPT !.destroys = Append(@, [node |-> n, pc |-> "hook",
                                         awaiting |-> s.hook[n]]),
                 !.teardowns = Append(@, s.hook[n])]

\* ---- destroy() after its await (part_005:114-122)
\* A variant that leaves the dependents of the destroyed node in place.
AfterTeardown_KeepsDependents(s, d) ==
  LET n == s.destroys[d].node
  IN SetStatus([s EXCEPT !.hook[n] = NoHook,
                         !.onev[n] = FALSE,
                         !.oninv[n] = FALSE,
                         !.onerr[n] = FALSE,
                         !.destroys[d].pc = "done"],
               n, "destroyed")

AfterTeardown(s, d) ==
  LET n == s.destroys[d].node
  IN SetStatus([s EXCEPT !.hook[n] = NoHook,
                         !.onev[n] = FALSE,
                         !.oninv[n] = FALSE,
                         !.onerr[n] = FALSE,
                         !.dependents[n] = <<>>,
                         !.destroys[d].pc = "done"],
               n, "destroyed")

----------------------------------------------------------------------------
\* The actions.

Apply(s) ==
  /\ status' = s.status
  /\ error' = s.error
  /\ evaluationPromise' = s.ep
  /\ erroredDependencies' = s.errdeps
  /\ invalidationCallback' = s.hook
  /\ recentCallChain' = s.chain
  /\ promises' = s.promises
  /\ calls' = s.calls
  /\ queue' = s.queue
  /\ evaluatorCalls' = s.evcalls
  /\ invalidations' = s.invals
  /\ raceMark' = s.mark
  /\ freshFrom' = s.fresh
  /\ dependents' = s.dependents
  /\ onInvalidatedCallbacks' = s.oninv
  /\ onErrorableErrorCallbacks' = s.onerr
  /\ invalidatedNotices' = s.invnot
  /\ errorableNotices' = s.errnot
  /\ destroyCalls' = s.destroys
  /\ teardowns' = s.teardowns
  /\ callbackCalls' = s.cbcalls
  /\ onEvaluatedCallbacks' = s.onev
  /\ evaluatedNotices' = s.evnot
  /\ invalidatedChains' = s.invch
  /\ UNCHANGED config
  /\ UNCHANGED <<nodeVars, treeVars>>

HostCalls == {c \in DOMAIN calls : calls[c].owner = 0}

\* Nothing is running: what a host that awaits its calls waits for.
Quiescent ==
  /\ queue = <<>>
  /\ \A p \in DOMAIN promises : promises[p].pc \in {"done", "dead"}
  /\ \A d \in DOMAIN destroyCalls : destroyCalls[d].pc = "done"

\* The host calls n.evaluate().
Evaluate(n) ==
  /\ n \in config.evaluated
  /\ Cardinality(HostCalls) < config.calls
  /\ config.patient => Quiescent
  /\ LET s == EvaluateOp(State, n, 0)
     IN /\ Len(s.promises) <= config.promises
        /\ Apply(s)
  /\ UNCHANGED hostInvalidates

\* The host calls n.invalidate().
Invalidate(n) ==
  /\ n \in config.invalidated
  /\ hostInvalidates < config.invalidates
  /\ config.patient => Quiescent
  /\ hostInvalidates' = IF InvalidateActs(status[n]) THEN hostInvalidates + 1
                        ELSE hostInvalidates
  /\ Apply(InvalidateOp(State, n, <<>>))

\* The evaluator invoked by promise p returns its result.
EvaluatorReturns(p) ==
  /\ promises[p].pc = "evaluator"
  /\ LET n == promises[p].node
         hook == IF n \in config.hooks THEN Hook(n, promises[p].inv) ELSE NoHook
         s == AfterEvaluatorReturned(State, p, hook)
     IN /\ Len(s.promises) <= config.promises
        /\ Apply(s)
  /\ UNCHANGED hostInvalidates

\* The evaluator invoked by promise p throws (or its promise rejects).
EvaluatorThrows(p) ==
  /\ promises[p].pc = "evaluator"
  /\ promises[p].node \in config.mayThrow
  /\ Apply(AfterEvaluatorThrew(State, p))
  /\ UNCHANGED hostInvalidates

\* The invalidation callback awaited by promise p completes.
CallbackReturns(p) ==
  /\ promises[p].pc = "hook"
  /\ promises[p].awaiting # NoHook
  /\ Apply(InvokeEvaluator(State, p))
  /\ UNCHANGED hostInvalidates

\* The invalidation callback awaited by promise p throws (or rejects).
CallbackThrows(p) ==
  /\ promises[p].pc = "hook"
  /\ promises[p].awaiting # NoHook
  /\ promises[p].node \in config.hookFails
  /\ Apply(AfterCallbackThrew(State, p))
  /\ UNCHANGED hostInvalidates

Dequeued == [State EXCEPT !.queue = Tail(queue)]

\* The runtime runs the first continuation of its queue.
ContinueEvaluate ==
  /\ queue # <<>> /\ Head(queue)[1] = "call"
  /\ Apply(AfterAwait(Dequeued, Head(queue)[2]))
  /\ UNCHANGED hostInvalidates

ContinueDependencies ==
  /\ queue # <<>> /\ Head(queue)[1] = "deps"
  /\ Apply(AfterDependencies(Dequeued, Head(queue)[2]))
  /\ UNCHANGED hostInvalidates

ContinueNoCallback ==
  /\ queue # <<>> /\ Head(queue)[1] = "hook"
  /\ Apply(InvokeEvaluator(Dequeued, Head(queue)[2]))
  /\ UNCHANGED hostInvalidates

ContinueNested ==
  /\ queue # <<>> /\ Head(queue)[1] = "nested"
  /\ Apply(AfterNested(Dequeued, Head(queue)[2]))
  /\ UNCHANGED hostInvalidates

Next ==
  \/ \E n \in Nodes : Evaluate(n)
  \/ \E n \in Nodes : Invalidate(n)
  \/ \E p \in DOMAIN promises : EvaluatorReturns(p)
  \/ \E p \in DOMAIN promises : EvaluatorThrows(p)
  \/ \E p \in DOMAIN promises : CallbackReturns(p)
  \/ ContinueEvaluate
  \/ ContinueDependencies
  \/ ContinueNoCallback
  \/ ContinueNested

\* The host calls n.destroy().
DestroyResource(n) ==
  /\ n \in config.destroyed
  /\ Len(destroyCalls) < config.destroys
  /\ config.patient => Quiescent
  /\ Apply(DestroyOp(State, n))
  /\ UNCHANGED hostInvalidates

\* The invalidation callback awaited by destroy() call d completes.
TeardownReturns(d) ==
  /\ destroyCalls[d].pc = "hook"
  /\ Apply(AfterTeardown(State, d))
  /\ UNCHANGED hostInvalidates

ContinueDestroy ==
  /\ queue # <<>> /\ Head(queue)[1] = "destroy"
  /\ Apply(AfterTeardown(Dequeued, Head(queue)[2]))
  /\ UNCHANGED hostInvalidates

NextLifecycle ==
  \/ Next
  \/ \E n \in Nodes : DestroyResource(n)
  \/ \E d \in DOMAIN destroyCalls : TeardownReturns(d)
  \/ ContinueDestroy

Init == InitWith(Graphs)

Spec == Init /\ [][Next]_vars

\* A single node, explored deeper.
InitDeep == InitWith({DeepGraph})

SpecDeep == InitDeep /\ [][Next]_vars

\* Failing dependencies, tolerated or not, next to the single node.
\* The single node with an onInvalidated observer that throws.
NoisyGraph == [SoloGraph EXCEPT !.throws = {"onInvalidated"}]

\* B tolerates the failure of A; the onEvaluated and onErrorableError
\* observers throw.
ObservedGraph ==
  [TolerantGraph EXCEPT !.throws = {"onEvaluated", "onErrorableError"},
                        !.calls = ObservedCalls,
                        !.invalidates = ObservedInvalidates,
                        !.promises = ObservedPromises]

InitObservers == InitWith({NoisyGraph, ObservedGraph})

SpecObservers == InitObservers /\ [][Next]_vars

\* A single node whose invalidation callbacks may throw.
FragileGraph ==
  [SoloGraph EXCEPT !.hookFails = {"A"},
                    !.calls = FragileCalls, !.invalidates = FragileInvalidates,
                    !.promises = FragilePromises]

NextFragile ==
  \/ Next
  \/ \E p \in DOMAIN promises : CallbackThrows(p)

InitFragile == InitWith({FragileGraph})

SpecFragile == InitFragile /\ [][NextFragile]_vars

InitDiamond == InitWith({DiamondGraph, SoloGraph})

SpecDiamond == InitDiamond /\ [][Next]_vars

InitFailures == InitWith({SoloGraph, StrictGraph, TolerantGraph})

SpecFailures == InitFailures /\ [][Next]_vars

\* A node that defers the invalidation of its dependent, next to the single
\* node.
InitDeferred == InitWith({SoloGraph, DeferredGraph})

SpecDeferred == InitDeferred /\ [][Next]_vars

\* Both timings side by side.
InitTimings == InitWith({ImmediateGraph, DeferredGraph})

SpecTimings == InitTimings /\ [][Next]_vars

\* A single node with destroy().
InitLifecycle == InitWith({LifecycleGraph})

SpecLifecycle == InitLifecycle /\ [][NextLifecycle]_vars

\* A node and its dependent with destroy(), next to the single node.
\* The same runs, with a runtime that runs every queued continuation, and
\* evaluators and invalidation callbacks that all complete.
Terminating ==
  /\ WF_vars(ContinueEvaluate)
  /\ WF_vars(ContinueDependencies)
  /\ WF_vars(ContinueNoCallback)
  /\ WF_vars(ContinueNested)
  /\ WF_vars(ContinueDestroy)
  /\ WF_vars(\E p \in DOMAIN promises : EvaluatorReturns(p) \/ EvaluatorThrows(p))
  /\ WF_vars(\E p \in DOMAIN promises : CallbackReturns(p))
  /\ WF_vars(\E d \in DOMAIN destroyCalls : TeardownReturns(d))

SpecLifecycleFair == SpecLifecycle /\ Terminating

InitTeardown == InitWith({BriefGraph, TeardownGraph})

SpecTeardown == InitTeardown /\ [][NextLifecycle]_vars

----------------------------------------------------------------------------
\* ResourceNode (resource-node.ts): one node without dependencies and without
\* an uninitialize method.  Its operations are functions on a record of its
\* state, as above.

NodeState ==
  [status |-> nodeStatus, error |-> nodeError, vp |-> valuePromise,
   count |-> continuousEvaluationCount, promises |-> nodePromises,
   calls |-> nodeCalls, queue |-> nodeQueue, warnings |-> warnings]

\* ---- the status setter (resource-node.ts:81-91)
NodeSetStatus(s, value) ==
  [s EXCEPT !.status = value,
            !.error = IF value # "errored" THEN "none" ELSE @,
            !.count = IF value = "ready" THEN 0 ELSE @]

\* ---- the threshold test (resource-node.ts:212)
\* A variant that warns one restart early.
ExceedsMaximum_Early(count) == count >= MAX_CONTINUOUS_EVALUATION_COUNT

ExceedsMaximum(count) == count > MAX_CONTINUOUS_EVALUATION_COUNT

\* ---- #createValuePromise up to its first await (resource-node.ts:176-181);
\* no dependencies: Promise.allSettled([]) continues a tick later.
CreateValuePromise(s, parent) ==
  [s EXCEPT !.status = "loading",
            !.promises = Append(@, [pc |-> "deps", state |-> "pending",
                                    child |-> 0, parent |-> parent]),
            !.queue = Append(@, <<"deps", Len(s.promises) + 1>>)]

\* ---- evaluate() up to its await (resource-node.ts:146-167)
NodeEvaluateOp(s) ==
  IF s.vp # 0 /\ s.status = "errored"
  THEN [s EXCEPT !.calls = Append(@, [promise |-> 0, state |-> "rejected"])]
  ELSE
    LET fresh == s.vp = 0 \/ s.status \in {"uninitialized", "stale"}
        q == IF fresh THEN Len(s.promises) + 1 ELSE s.vp
        s1 == IF fresh THEN [CreateValuePromise(s, 0) EXCEPT !.vp = q] ELSE s
        s2 == [s1 EXCEPT !.calls = Append(@, [promise |-> q, state |-> "waiting"])]
    IN IF s2.promises[q].state # "pending"
       THEN [s2 EXCEPT !.queue = Append(@, <<"call", Len(s2.calls)>>)]
       ELSE s2

\* ---- markStale() (resource-node.ts:120-136); there are no dependents
MarkStaleActs(st) == st \in {"ready", "loading", "errored"}

MarkStaleOp(s) ==
  IF MarkStaleActs(s.status) THEN NodeSetStatus(s, "stale") ELSE s

\* ---- resolve(result) / reject(e) (resource-node.ts:223-225)
RECURSIVE NodeEnqueueCalls(_, _)
NodeEnqueueCalls(s, cs) ==
  IF cs = <<>> THEN s
  ELSE NodeEnqueueCalls([s EXCEPT !.queue = Append(@, <<"call", Head(cs)>>)],
                        Tail(cs))

NodeSettle(s, p, state) ==
  LET s1 == [s EXCEPT !.promises[p].state = state, !.promises[p].pc = "done"]
      waiters == SelectSeq([c \in DOMAIN s.calls |-> c],
                   LAMBDA c : s.calls[c].promise = p /\ s.calls[c].state = "waiting")
      s2 == NodeEnqueueCalls(s1, waiters)
  IN IF s.promises[p].parent # 0
     THEN [s2 EXCEPT !.queue = Append(@, <<"nested", s.promises[p].parent>>)]
     ELSE s2

\* ---- after `await this.#evaluateDependencies()` (resource-node.ts:181-190)
AfterNodeDependencies(s, p) ==
  IF s.status = "uninitialized"
  THEN [s EXCEPT !.promises[p].pc = "initialize"]
  ELSE [s EXCEPT !.promises[p].pc = "uninitialize",
                 !.queue = Append(@, <<"uninitialize", p>>)]

\* ---- after initialize() returned (resource-node.ts:192-223)
AfterInitialize(s, p) ==
  CASE s.status \in {"loading", "errored"} ->
         NodeSettle(NodeSetStatus(s, "ready"), p, "fulfilled")
    [] s.status = "ready" -> NodeSettle(s, p, "fulfilled")
    [] OTHER ->
         LET n == s.count + 1
             s1 == [s EXCEPT !.count = n,
                             !.warnings = IF ExceedsMaximum(n) THEN @ + 1 ELSE @]
         IN [CreateValuePromise(s1, p) EXCEPT
               !.promises[p].pc = "nested",
               !.promises[p].child = Len(s.promises) + 1]

\* ---- after `await this.#createValuePromise()` (resource-node.ts:220-225)
AfterNodeNested(s, p) ==
  NodeSettle(s, p, s.promises[s.promises[p].child].state)

\* ---- after `await this.#valuePromise` in evaluate() (resource-node.ts:166-173)
AfterNodeAwait(s, c) ==
  IF s.promises[s.calls[c].promise].state = "fulfilled"
  THEN [s EXCEPT !.calls[c].state = "fulfilled"]
  ELSE [NodeSetStatus(s, "errored") EXCEPT
          !.error = "refresh", !.calls[c].state = "rejected"]

NodeApply(s) ==
  /\ nodeStatus' = s.status
  /\ nodeError' = s.error
  /\ valuePromise' = s.vp
  /\ continuousEvaluationCount' = s.count
  /\ nodePromises' = s.promises
  /\ nodeCalls' = s.calls
  /\ nodeQueue' = s.queue
  /\ warnings' = s.warnings
  /\ UNCHANGED <<resourceVars, treeVars>>

\* The host calls evaluate().
NodeEvaluate ==
  /\ Len(nodeCalls) < NodeCalls
  /\ LET s == NodeEvaluateOp(NodeState)
     IN Len(s.promises) <= NodePromises /\ NodeApply(s)
  /\ UNCHANGED <<marks, destroys>>

\* The host calls markStale().
MarkStale ==
  /\ marks < NodeMarks
  /\ marks' = IF MarkStaleActs(nodeStatus) THEN marks + 1 ELSE marks
  /\ NodeApply(MarkStaleOp(NodeState))
  /\ UNCHANGED destroys

\* The host calls destroy() (resource-node.ts:101-112): it awaits the
\* dependencies, then the absent uninitialize, then sets the status.
Destroy ==
  /\ destroys < NodeDestroys
  /\ destroys' = destroys + 1
  /\ NodeApply([NodeState EXCEPT !.queue = Append(@, <<"destroy", 1>>)])
  /\ UNCHANGED marks

InitializeReturns(p) ==
  /\ nodePromises[p].pc = "initialize"
  /\ LET s == AfterInitialize(NodeState, p)
     IN Len(s.promises) <= NodePromises /\ NodeApply(s)
  /\ UNCHANGED <<marks, destroys>>

InitializeThrows(p) ==
  /\ nodePromises[p].pc = "initialize"
  /\ NodeApply(NodeSettle(NodeState, p, "rejected"))
  /\ UNCHANGED <<marks, destroys>>

NodeDequeued == [NodeState EXCEPT !.queue = Tail(nodeQueue)]

NodeJob(kind) == nodeQueue # <<>> /\ Head(nodeQueue)[1] = kind

NodeContinueEvaluate ==
  /\ NodeJob("call")
  /\ NodeApply(AfterNodeAwait(NodeDequeued, Head(nodeQueue)[2]))
  /\ UNCHANGED <<marks, destroys>>

NodeContinueDependencies ==
  /\ NodeJob("deps")
  /\ NodeApply(AfterNodeDependencies(NodeDequeued, Head(nodeQueue)[2]))
  /\ UNCHANGED <<marks, destroys>>

NodeContinueUninitialize ==
  /\ NodeJob("uninitialize")
  /\ NodeApply([NodeDequeued EXCEPT !.promises[Head(nodeQueue)[2]].pc = "initialize"])
  /\ UNCHANGED <<marks, destroys>>

NodeContinueNested ==
  /\ NodeJob("nested")
  /\ NodeApply(AfterNodeNested(NodeDequeued, Head(nodeQueue)[2]))
  /\ UNCHANGED <<marks, destroys>>

NodeContinueDestroy ==
  /\ NodeJob("destroy")
  /\ NodeApply(IF Head(nodeQueue)[2] = 1
               THEN [NodeDequeued EXCEPT !.queue = Append(@, <<"destroy", 2>>)]
               ELSE NodeSetStatus(NodeDequeued, "uninitialized"))
  /\ UNCHANGED <<marks, destroys>>

NextNode ==
  \/ NodeEvaluate
  \/ MarkStale
  \/ Destroy
  \/ \E p \in DOMAIN nodePromises : InitializeReturns(p)
  \/ \E p \in DOMAIN nodePromises : InitializeThrows(p)
  \/ NodeContinueEvaluate
  \/ NodeContinueDependencies
  \/ NodeContinueUninitialize
  \/ NodeContinueNested
  \/ NodeContinueDestroy

InitNode == InitWith({SoloGraph})

SpecNode == InitNode /\ [][NextNode]_vars

----------------------------------------------------------------------------
\* The README's minimal tree of ResourceNodes. Neither initialize() of the
\* example throws, so no promise rejects and no node becomes errored here;
\* the restart counter only feeds the warning and is left to the single node
\* above.

TreeState ==
  [value |-> treeValue, status |-> treeStatus, vp |-> treeValuePromise,
   promises |-> treePromises, calls |-> treeCalls, queue |-> treeQueue,
   updates |-> treeUpdates]

\* ---- the constructor's addDependent calls (resource-node.ts:72-74)
TreeDependents(n) == {m \in TreeNodes : n \in Range(TreeDependencies[m])}

\* ---- markStale() and markDependentsStale() (resource-node.ts:120-144)
RECURSIVE TreeMarkStale(_, _)
RECURSIVE TreeMarkEach(_, _)
TreeMarkEach(s, ms) ==
  IF ms = {} THEN s
  ELSE LET m == CHOOSE x \in ms : TRUE
       IN TreeMarkEach(TreeMarkStale(s, m), ms \ {m})

TreeMarkDependentsStale(s, n) == TreeMarkEach(s, TreeDependents(n))

TreeMarkStale(s, n) ==
  IF s.status[n] \in {"ready", "loading", "errored"}
  THEN TreeMarkDependentsStale([s EXCEPT !.status[n] = "stale"], n)
  ELSE s

\* ---- the README's initialize() of class A and of class B (part_000:21-38)
Text(a) ==
  CASE a = "123" -> "The number is: 123"
    [] a = "456" -> "The number is: 456"
    [] OTHER -> "The number is: undefined"

Initialize(n, value, dependencies) ==
  IF n = "A" THEN value ELSE Text(dependencies["A"])

\* ---- evaluate() up to its await (resource-node.ts:146-167), with
\* #createValuePromise up to its first await (resource-node.ts:176-181) and
\* the synchronous part of #evaluateDependencies (resource-node.ts:230-242)
RECURSIVE TreeEvaluateOp(_, _, _)
RECURSIVE TreeEvaluateEach(_, _, _)
TreeEvaluateEach(s, ds, p) ==
  IF ds = <<>> THEN s
  ELSE LET s1 == TreeEvaluateOp(s, Head(ds), p)
       IN TreeEvaluateEach(
            [s1 EXCEPT !.promises[p].awaiting = @ \cup {Len(s1.calls)}],
            Tail(ds), p)

TreeCreateValuePromise(s, n, parent) ==
  LET p == Len(s.promises) + 1
      s1 == [s EXCEPT
               !.status[n] = "loading",
               !.promises = Append(@,
                 [node |-> n, pc |-> "deps", state |-> "pending",
                  result |-> NoValue,
                  dependencies |-> [d \in TreeNodes |-> NoValue],
                  awaiting |-> {}, child |-> 0, parent |-> parent])]
      s2 == TreeEvaluateEach(s1, TreeDependencies[n], p)
  IN IF s2.promises[p].awaiting = {}
     THEN [s2 EXCEPT !.queue = Append(@, <<"deps", p>>)]
     ELSE s2

TreeEvaluateOp(s, n, owner) ==
  LET fresh == s.vp[n] = 0 \/ s.status[n] \in {"uninitialized", "stale"}
      q == IF fresh THEN Len(s.promises) + 1 ELSE s.vp[n]
      s1 == IF fresh
            THEN [TreeCreateValuePromise(s, n, 0) EXCEPT !.vp[n] = q]
            ELSE s
      c == Len(s1.calls) + 1
      s2 == [s1 EXCEPT !.calls = Append(@,
               [node |-> n, promise |-> q, owner |-> owner,
                state |-> "waiting", result |-> NoValue,
                updatesAt |-> Len(s.updates), updatesEnd |-> 0])]
  IN IF s2.promises[q].state # "pending"
     THEN [s2 EXCEPT !.queue = Append(@, <<"call", c>>)]
     ELSE s2

\* ---- resolve(result) (resource-node.ts:223)
RECURSIVE TreeEnqueueCalls(_, _)
TreeEnqueueCalls(s, cs) ==
  IF cs = <<>> THEN s
  ELSE TreeEnqueueCalls([s EXCEPT !.queue = Append(@, <<"call", Head(cs)>>)],
                        Tail(cs))

TreeSettle(s, p, result) ==
  LET s1 == [s EXCEPT !.promises[p].state = "fulfilled",
                      !.promises[p].result = result,
                      !.promises[p].pc = "done"]
      waiters == SelectSeq([c \in DOMAIN s.calls |-> c],
                   LAMBDA c : s.calls[c].promise = p /\ s.calls[c].state = "waiting")
      s2 == TreeEnqueueCalls(s1, waiters)
  IN IF s.promises[p].parent # 0
     THEN [s2 EXCEPT !.queue = Append(@, <<"nested", s.promises[p].parent>>)]
     ELSE s2

\* ---- after `await this.#valuePromise` in evaluate() (resource-node.ts:166-167);
\* a call made by #evaluateDependencies hands its value to the waiting
\* Promise.allSettled (resource-node.ts:241-251)
AfterTreeAwait(s, c) ==
  LET call == s.calls[c]
      result == s.promises[call.promise].result
      s1 == [s EXCEPT !.calls[c].state = "fulfilled",
                      !.calls[c].result = result,
                      !.calls[c].updatesEnd = Len(s.updates)]
      o == call.owner
  IN IF o = 0 THEN s1
     ELSE LET s2 == [s1 EXCEPT !.promises[o].dependencies[call.node] = result,
                               !.promises[o].awaiting = @ \ {c}]
          IN IF s2.promises[o].awaiting = {}
             THEN [s2 EXCEPT !.queue = Append(@, <<"deps", o>>)]
             ELSE s2

\* ---- the call of initialize(dependencies) (resource-node.ts:186, 189)
TreeCallInitialize(s, p) ==
  [s EXCEPT !.promises[p].pc = "initialize",
            !.promises[p].result =
              Initialize(s.promises[p].node, s.value, s.promises[p].dependencies),
            !.queue = Append(@, <<"initialize", p>>)]

\* ---- after `await this.#evaluateDependencies()` (resource-node.ts:181-190)
AfterTreeDependencies(s, p) ==
  IF s.status[s.promises[p].node] = "uninitialized"
  THEN TreeCallInitialize(s, p)
  ELSE [s EXCEPT !.promises[p].pc = "uninitialize",
                 !.queue = Append(@, <<"uninitialize", p>>)]

\* ---- after initialize() returned (resource-node.ts:192-223)
AfterTreeInitialize(s, p) ==
  LET n == s.promises[p].node
      result == s.promises[p].result
  IN CASE s.status[n] \in {"loading", "errored"} ->
            TreeSettle([s EXCEPT !.status[n] = "ready"], p, result)
       [] s.status[n] = "ready" -> TreeSettle(s, p, result)
       [] OTHER ->
            [TreeCreateValuePromise(s, n, p) EXCEPT
               !.promises[p].pc = "nested",
               !.promises[p].child = Len(s.promises) + 1]

\* ---- after `await this.#createValuePromise()` (resource-node.ts:220-223)
AfterTreeNested(s, p) ==
  TreeSettle(s, p, s.promises[s.promises[p].child].result)

TreeApply(s) ==
  /\ treeValue' = s.value
  /\ treeStatus' = s.status
  /\ treeValuePromise' = s.vp
  /\ treePromises' = s.promises
  /\ treeCalls' = s.calls
  /\ treeQueue' = s.queue
  /\ treeUpdates' = s.updates
  /\ UNCHANGED <<resourceVars, nodeVars>>

TreeHostCalls == {c \in DOMAIN treeCalls : treeCalls[c].owner = 0}

\* The host calls evaluate() on a node of the tree.
TreeEvaluate(n) ==
  /\ Cardinality(TreeHostCalls) < TreeCalls
  /\ LET s == TreeEvaluateOp(TreeState, n, 0)
     IN Len(s.promises) <= TreePromises /\ TreeApply(s)

\* ---- updateValue(newValue) of the README's class A (part_000:25-30)
UpdateValueOp(s, v) ==
  TreeMarkDependentsStale(
    [s EXCEPT !.value = v,
              !.updates = Append(@, [value |-> v, status |-> s.status["A"]])],
    "A")

\* The host calls a.updateValue(v).
UpdateValue(v) ==
  /\ Len(treeUpdates) < TreeUpdates
  /\ TreeApply(UpdateValueOp(TreeState, v))

TreeDequeued == [TreeState EXCEPT !.queue = Tail(treeQueue)]

TreeJob(kind) == treeQueue # <<>> /\ Head(treeQueue)[1] = kind

TreeContinueEvaluate ==
  /\ TreeJob("call")
  /\ TreeApply(AfterTreeAwait(TreeDequeued, Head(treeQueue)[2]))

TreeContinueDependencies ==
  /\ TreeJob("deps")
  /\ LET s == AfterTreeDependencies(TreeDequeued, Head(treeQueue)[2])
     IN TreeApply(s)

TreeContinueUninitialize ==
  /\ TreeJob("uninitialize")
  /\ TreeApply(TreeCallInitialize(TreeDequeued, Head(treeQueue)[2]))

TreeContinueInitialize ==
  /\ TreeJob("initialize")
  /\ LET s == AfterTreeInitialize(TreeDequeued, Head(treeQueue)[2])
     IN Len(s.promises) <= TreePromises /\ TreeApply(s)

TreeContinueNested ==
  /\ TreeJob("nested")
  /\ TreeApply(AfterTreeNested(TreeDequeued, Head(treeQueue)[2]))

NextTree ==
  \/ \E n \in TreeNodes : TreeEvaluate(n)
  \/ \E v \in TreeValues : UpdateValue(v)
  \/ TreeContinueEvaluate
  \/ TreeContinueDependencies
  \/ TreeContinueUninitialize
  \/ TreeContinueInitialize
  \/ TreeContinueNested

InitTree == InitWith({SoloGraph})

SpecTree == InitTree /\ [][NextTree]_vars

----------------------------------------------------------------------------
\* The properties.

Settled(c) == calls[c].state # "waiting"

Fulfilled(c) == calls[c].state = "fulfilled"

\* c1 had settled when c2 was issued on the same node, and invalidate() acted
\* neither on the node nor on one of its transitive dependencies from the
\* moment c1 was issued until c2 settled.
Sequential(c1, c2) ==
  /\ calls[c1].node = calls[c2].node
  /\ c1 \in calls[c2].prior
  /\ Settled(c2)
  /\ calls[c2].invEnd = calls[c1].invAt

\* C1: two sequential evaluate() calls on a node, the first settled before
\* the second is issued and no invalidate() on the node or its transitive
\* dependencies from the first call to the settling of the second, resolve to
\* the identical result of one and the same evaluation; and when no
\* evaluation of the node was in flight as the first call was issued, the
\* evaluator is invoked exactly once from then until the second call settles
\* if the node had no valid value, and not at all if it had one.
C1_Memoization ==
  \A c1 \in DOMAIN calls, c2 \in DOMAIN calls :
    (Sequential(c1, c2) /\ Fulfilled(c1) /\ Fulfilled(c2))
    => /\ calls[c2].result = calls[c1].result
       /\ calls[c2].promise = calls[c1].promise
       /\ calls[c1].clean =>
            calls[c2].runsEnd =
              calls[c1].runsAt +
                (IF calls[c1].statusAt \in {"unevaluated", "invalidated"}
                 THEN 1 ELSE 0)

C1_Witness ==
  \E c1 \in DOMAIN calls, c2 \in DOMAIN calls :
    /\ Sequential(c1, c2) /\ Fulfilled(c1) /\ Fulfilled(c2)
    /\ calls[c1].owner = 0 /\ calls[c2].owner = 0
    /\ calls[c1].clean /\ calls[c1].statusAt = "unevaluated"

\* C2: a node never has more than one evaluator invocation running.
C2_OneEvaluationInFlight ==
  \A n \in Nodes :
    Cardinality({p \in DOMAIN promises :
                   promises[p].node = n /\ promises[p].pc = "evaluator"}) <= 1

\* C3: no evaluate() call is fulfilled with the value of an evaluator
\* invocation during which the node was invalidated.
C3_NoStaleValue ==
  \A c \in DOMAIN calls :
    Fulfilled(c) => ~promises[calls[c].promise].stale

\* C4: when a node is invalidated while it is evaluating, the evaluate() call
\* that was pending then and the evaluate() call issued afterwards resolve to
\* the same result.
C4_BothCallsSameResult ==
  \A c2 \in DOMAIN calls :
    \A c1 \in calls[c2].racers :
      (Fulfilled(c1) /\ Fulfilled(c2)) => calls[c1].result = calls[c2].result

\* c2 was issued while c1, the first evaluate() of a node, had not settled,
\* and invalidate() acted neither on the node nor on one of its transitive
\* dependencies until both had settled.
Concurrent(c1, c2) ==
  /\ c1 < c2
  /\ calls[c1].node = calls[c2].node
  /\ calls[c1].statusAt = "unevaluated"
  /\ c1 \notin calls[c2].prior
  /\ Settled(c1) /\ Settled(c2)
  /\ calls[c1].invEnd = calls[c1].invAt
  /\ calls[c2].invEnd = calls[c1].invAt

\* C5: two evaluate() calls on an unevaluated node, the second issued before
\* the first settles and no invalidate() in between, invoke the evaluator at
\* most once, and when both are fulfilled they have the same value, obtained
\* from exactly one invocation.
C5_ConcurrentCallsShare ==
  \A c1 \in DOMAIN calls, c2 \in DOMAIN calls :
    Concurrent(c1, c2)
    => /\ calls[c1].runsEnd <= 1 /\ calls[c2].runsEnd <= 1
       /\ Fulfilled(c1) <=> Fulfilled(c2)
       /\ Fulfilled(c1) => /\ calls[c1].result = calls[c2].result
                           /\ calls[c1].runsEnd = 1 /\ calls[c2].runsEnd = 1

C5_Witness ==
  \E c1 \in DOMAIN calls, c2 \in DOMAIN calls :
    /\ Concurrent(c1, c2) /\ Fulfilled(c1) /\ Fulfilled(c2)
    /\ calls[c1].owner = 0 /\ calls[c2].owner = 0

\* C6: the first evaluate() issued after invalidate() acted on an evaluated
\* node is fulfilled only with the value of an evaluator invocation that
\* started after that invalidate().
C6_InvalidationFreshness ==
  \A c \in DOMAIN calls :
    (Fulfilled(c) /\ calls[c].freshFrom # 0)
    => calls[c].result.n >= calls[c].freshFrom

\* The chain of the propagation test: B depends on A, C depends on B, all
\* with the default timing.
IsChain ==
  /\ config.deps["B"] = <<"A">> /\ config.deps["C"] = <<"B">>
  /\ \A n \in Nodes : config.when[n] = "invalidated"

HostEvaluates(n) ==
  /\ Cardinality(HostCalls') = Cardinality(HostCalls) + 1
  /\ calls'[Len(calls')].node = n

\* C7: in the chain, with A, B and C evaluated, the step of invalidate() on A
\* leaves all three invalidated; and an evaluate() on a node that is
\* invalidated awaits a promise created by that very call.
C7_SynchronousPropagation ==
  [][ /\ ( /\ IsChain
           /\ \A n \in Range(config.order) : status[n] = "evaluated"
           /\ hostInvalidates' # hostInvalidates
           /\ status'["A"] # status["A"] )
         => \A n \in Range(config.order) : status'[n] = "invalidated"
      /\ \A n \in Nodes :
           (IsChain /\ status[n] = "invalidated" /\ HostEvaluates(n))
           => /\ calls'[Len(calls')].promise > Len(promises)
              /\ evaluationPromise'[n] = calls'[Len(calls')].promise
    ]_vars

C7_Witness ==
  /\ IsChain
  /\ \A n \in Range(config.order) : invalidations[n] = 1 /\ evaluatorCalls[n] >= 1
  /\ \E c \in HostCalls :
       /\ calls[c].node \in {"B", "C"}
       /\ calls[c].statusAt = "invalidated"
       /\ promises[calls[c].promise].inv = 2
       /\ Fulfilled(c)

\* C8: when invalidate() acts on a node that is evaluating, and no evaluate()
\* is issued on the node before a cycle that was in flight settles, every
\* call awaiting that cycle that is fulfilled receives the value of an
\* evaluator invocation started after that invalidate().
C8_RaceRestarts ==
  \A c \in DOMAIN calls :
    (Fulfilled(c) /\ promises[calls[c].promise].raced # 0)
    => calls[c].result.n >= promises[calls[c].promise].raced

\* C10: once the dependencies of an evaluation have settled, the evaluation
\* goes on to invoke the evaluator unless a dependency that is not errorable
\* failed; the map it passes has the value of every fulfilled dependency and
\* nothing for a failed one; and the evaluation is not rejected by the
\* failure of an errorable dependency.
C10_ErrorableTolerance ==
  \A p \in DOMAIN promises :
    LET n == promises[p].node
        dep(i) == calls[promises[p].depCalls[i]]
        failed == {i \in DOMAIN config.deps[n] : dep(i).state = "rejected"}
    IN promises[p].pc \in {"hook", "evaluator", "nested", "done"}
       => /\ (\A i \in failed : config.deps[n][i] \in config.errorables[n])
             => promises[p].failedAt # "deps"
          /\ promises[p].failedAt # "deps"
             => \A i \in DOMAIN config.deps[n] :
                  promises[p].args[i] =
                    IF i \in failed THEN Absent ELSE dep(i).result
          /\ promises[p].pc \in {"evaluator", "nested"} => promises[p].inv > 0
          /\ (promises[p].state = "fulfilled" /\ promises[p].child = 0)
             => promises[p].result =
                  EvaluationResult(n, promises[p].inv, promises[p].args)

C10_Witness ==
  \E c \in HostCalls :
    LET p == calls[c].promise IN
    /\ calls[c].node = "B" /\ Fulfilled(c)
    /\ config.errorables["B"] = {"A"}
    /\ calls[promises[p].depCalls[1]].state = "rejected"
    /\ calls[c].result.sub[1] = Absent
    /\ calls[c].result.sub[2] = EvaluationResult("C", 1, <<>>)

Restarts ==
  \E p \in DOMAIN nodePromises :
    nodePromises[p].pc = "initialize" /\ nodePromises'[p].pc = "nested"

\* C9: the counter goes up by one exactly on the steps that restart an
\* evaluation, and otherwise stays or returns to 0; a warning is emitted
\* exactly on the restarts that take the counter above 2; a restart rejects
\* no promise and starts a new one; and whenever the status becomes ready the
\* counter is 0.
C9_RestartWarning ==
  [][ /\ Restarts <=> continuousEvaluationCount' = continuousEvaluationCount + 1
      /\ continuousEvaluationCount' \in
           {continuousEvaluationCount, continuousEvaluationCount + 1, 0}
      /\ warnings' =
           warnings + (IF Restarts /\ continuousEvaluationCount' > 2 THEN 1 ELSE 0)
      /\ Restarts =>
           /\ Len(nodePromises') = Len(nodePromises) + 1
           /\ \A p \in DOMAIN nodePromises :
                nodePromises'[p].state = nodePromises[p].state
      /\ nodeStatus' = "ready" => continuousEvaluationCount' = 0
    ]_vars

C9_Witness ==
  /\ warnings = 1
  /\ nodeStatus = "ready"
  /\ continuousEvaluationCount = 0
  /\ \E c \in DOMAIN nodeCalls : nodeCalls[c].state = "fulfilled"

\* C11: a cycle in which a dependency outside errorableKeys failed never
\* invokes the evaluator and is rejected, so evaluate() on the node fails.
NonErrorableFailures(p) ==
  {i \in DOMAIN promises[p].depCalls :
     /\ calls[promises[p].depCalls[i]].state = "rejected"
     /\ config.deps[promises[p].node][i] \notin config.errorables[promises[p].node]}

C11_NonErrorableFailureAborts ==
  \A p \in DOMAIN promises :
    (promises[p].pc \notin {"deps", "dead"} /\ NonErrorableFailures(p) # {})
      => promises[p].runs = 0 /\ promises[p].state = "rejected"

\* C12: every caller whose evaluate() was rejected because the evaluator
\* failed holds the very error stored on the node, the node is errored, and
\* the cause of that error is what the evaluator threw.  Stated for the
\* callers of the node's current cycle, as long as invalidate() has not
\* acted on the node since the call was issued.
Rejected(c) == calls[c].state = "rejected"

FailedInEvaluator(c) ==
  /\ Rejected(c)
  /\ calls[c].promise # 0
  /\ promises[calls[c].promise].failedAt = "evaluator"
  /\ evaluationPromise[calls[c].node] = calls[c].promise
  /\ InvalidationsOf(State, calls[c].node) = calls[c].invAt

C12_CallerHoldsStoredError ==
  \A c \in DOMAIN calls :
    FailedInEvaluator(c) =>
      /\ status[calls[c].node] = "errored"
      /\ calls[c].result = error[calls[c].node]
      /\ calls[c].result.sub[1] = promises[calls[c].promise].result

\* C13: when evaluate() on a node was rejected because a dependency outside
\* its errorableKeys failed, the cause of the caller's error is the very error
\* stored on that dependency, as long as invalidate() has acted neither on the
\* node nor on its dependencies since the call was issued.
FailedInDependencies(c) ==
  /\ Rejected(c)
  /\ calls[c].promise # 0
  /\ promises[calls[c].promise].failedAt = "deps"
  /\ InvalidationsOf(State, calls[c].node) = calls[c].invAt

C13_FailureLineage ==
  \A c \in DOMAIN calls :
    FailedInDependencies(c) =>
      \E i \in NonErrorableFailures(calls[c].promise) :
        calls[c].result.sub[1] = error[config.deps[calls[c].node][i]]

\* C14: evaluate() on an errored node is rejected at once with the stored
\* error, issues no call on a dependency, creates no promise and invokes no
\* evaluator; no step starts a cycle of a node that is errored; invalidate()
\* on an errored node makes it invalidated and clears the error, and
\* evaluate() on an invalidated node starts a new cycle.
StartedCycles(n) ==
  {p \in DOMAIN promises' \ DOMAIN promises : promises'[p].node = n}

C14_ErroredDoesNotRetry ==
  [][\A n \in Nodes :
       /\ (HostEvaluates(n) /\ status[n] = "errored") =>
            /\ calls' = Append(calls, calls'[Len(calls')])
            /\ calls'[Len(calls')].state = "rejected"
            /\ calls'[Len(calls')].result = error[n]
            /\ promises' = promises
            /\ evaluatorCalls' = evaluatorCalls
            /\ status' = status /\ error' = error
       /\ status[n] = "errored" => StartedCycles(n) = {}
       /\ (status[n] = "errored" /\ invalidations'[n] # invalidations[n]) =>
            status'[n] = "invalidated" /\ error'[n] = NoResult
       /\ (HostEvaluates(n) /\ status[n] = "invalidated") =>
            evaluationPromise'[n] \in StartedCycles(n)]_vars

C14_Witness ==
  \E c \in HostCalls :
    /\ calls[c].statusAt = "errored"
    /\ Rejected(c)
    /\ calls[c].promise = 0
    /\ status[calls[c].node] = "invalidated"
    /\ error[calls[c].node] = NoResult

\* C15: for an errorable key, the onErrorableError observer is called once in
\* a cycle in which the dependency failed and the node's previous cycle (if
\* any) saw it succeed, and is not called in any other cycle.
Cycles(n) == {p \in DOMAIN promises : promises[p].node = n /\ promises[p].turn > 0}

DependencyFailed(p, i) == calls[promises[p].depCalls[i]].state = "rejected"

Notices(p, i) ==
  LET n == promises[p].node IN
  Cardinality({j \in DOMAIN errorableNotices[n] :
                 errorableNotices[n][j] = <<config.deps[n][i], p>>})

FirstFailure(p, i) ==
  /\ DependencyFailed(p, i)
  /\ \A q \in Cycles(promises[p].node) :
       promises[q].turn = promises[p].turn - 1 => ~DependencyFailed(q, i)

C15_NotifiedOncePerFailure ==
  \A n \in Nodes : \A p \in Cycles(n) : \A i \in DOMAIN config.deps[n] :
    config.deps[n][i] \in config.errorables[n] =>
      Notices(p, i) = IF FirstFailure(p, i) THEN 1 ELSE 0

\* Four cycles in a row: failed (notified), failed again (silent), succeeded,
\* failed (notified again).
C15_Witness ==
  \E p1, p2, p3, p4 \in Cycles("B") :
    /\ promises[p1].turn = 1 /\ promises[p2].turn = 2
    /\ promises[p3].turn = 3 /\ promises[p4].turn = 4
    /\ DependencyFailed(p1, 1) /\ Notices(p1, 1) = 1
    /\ DependencyFailed(p2, 1) /\ Notices(p2, 1) = 0
    /\ ~DependencyFailed(p3, 1)
    /\ DependencyFailed(p4, 1) /\ Notices(p4, 1) = 1

\* C16: an evaluate() issued on a destroyed node is never fulfilled with a
\* value and never awaits a promise that cannot settle.
IssuedOnDestroyed(c) == calls[c].owner = 0 /\ calls[c].statusAt = "destroyed"

PendingForever(c) ==
  calls[c].state = "waiting" /\ promises[calls[c].promise].pc = "dead"

C16_EvaluateAfterDestroyFails ==
  \A c \in DOMAIN calls :
    IssuedOnDestroyed(c) => ~Fulfilled(c) /\ ~PendingForever(c)

\* C17: in every state in which a node is destroyed, invalidate() on it
\* throws and changes nothing: no status, no causal chain, no observer
\* notice, no other node.
C17_InvalidateAfterDestroyFails ==
  \A n \in Nodes :
    status[n] = "destroyed" =>
      InvalidateOp(State, n, <<>>) = [State EXCEPT !.threw = TRUE]

\* A is destroyed while its dependent B is evaluated, and the host may still
\* call invalidate().
C17_Witness ==
  /\ config = TeardownGraph
  /\ status["A"] = "destroyed" /\ status["B"] = "evaluated"
  /\ hostInvalidates < config.invalidates
  /\ Quiescent
  /\ ENABLED Invalidate("A")

\* C18: no invalidation callback is invoked by destroy() more than once.
C18_TeardownAtMostOnce ==
  \A i, j \in DOMAIN teardowns : i # j => teardowns[i] # teardowns[j]

\* C19: a destroyed node stays destroyed.
C19_DestroyedIsTerminal ==
  [][\A n \in Nodes : status[n] = "destroyed" => status'[n] = "destroyed"]_vars

\* C20: in every state, invalidate() on a node that is unevaluated or
\* invalidated changes nothing (no status, no causal chain, no observer
\* notice), and invalidate() on a node that is evaluated, evaluating or
\* errored leaves that node invalidated.
C20_InvalidateNoOp ==
  \A n \in Nodes :
    /\ status[n] \in {"unevaluated", "invalidated"} =>
         InvalidateOp(State, n, <<>>) = State
    /\ status[n] \in {"evaluated", "evaluating", "errored"} =>
         InvalidateOp(State, n, <<>>).status[n] = "invalidated"

\* invalidate() has acted once on A and reached B, and the host may call it
\* on A again.
C20_Witness ==
  /\ config = TolerantGraph
  /\ status["A"] = "invalidated" /\ status["B"] = "invalidated"
  /\ invalidatedNotices["A"] = 1 /\ recentCallChain["B"] = <<"A", "B">>
  /\ ENABLED Invalidate("A")

\* C21: for a node whose dependents are invalidated on reevaluation,
\* (a) a step in which invalidate() acts on the node changes no dependent's
\* status; (b) a dependent becomes invalidated only in a step that settles a
\* cycle of the node; (c) the step that settles a cycle of the node leaves
\* every dependent that was evaluated, evaluating or errored invalidated,
\* while no caller awaiting that cycle has received its result yet.
Deferring(n) == config.when[n] = "reevaluated"

SettlesNow(p) == promises[p].state = "pending" /\ promises'[p].state # "pending"

C21_DeferredPropagation ==
  [][\A n \in Nodes : \A i \in DOMAIN dependents[n] :
       LET d == dependents[n][i] IN
       Deferring(n) =>
         /\ invalidations'[n] # invalidations[n] => status'[d] = status[d]
         /\ (status[d] # "invalidated" /\ status'[d] = "invalidated") =>
              \E p \in DOMAIN promises : promises[p].node = n /\ SettlesNow(p)
         /\ \A p \in DOMAIN promises :
              (promises[p].node = n /\ SettlesNow(p)) =>
                /\ InvalidateActs(status[d]) => status'[d] = "invalidated"
                /\ \A c \in DOMAIN calls :
                     calls[c].promise = p => calls'[c].state = calls[c].state]_vars

\* The host invalidated A while B was evaluated; B stayed evaluated until A's
\* next cycle settled, and is invalidated now, before the caller of
\* A.evaluate() has its result.
C21_Witness ==
  /\ config = DeferredGraph
  /\ invalidations["A"] = 1 /\ invalidations["B"] = 2
  /\ status["B"] = "invalidated"
  /\ recentCallChain["B"] = <<"A", "B">>
  /\ \E c \in HostCalls :
       /\ calls[c].node = "A" /\ calls[c].statusAt = "invalidated"
       /\ calls[c].state = "waiting"
       /\ promises[calls[c].promise].state = "fulfilled"

\* C22: no invalidation callback returned by an evaluator is invoked more
\* than once, counting the invocations by evaluation cycles and by destroy().
HookInvocations == callbackCalls \o teardowns

C22_HookAtMostOnce ==
  \A i, j \in DOMAIN HookInvocations :
    i # j => HookInvocations[i] # HookInvocations[j]

\* C23: a fulfilled evaluate() on a node, issued while no cycle of the node or
\* of its transitive dependencies was in flight and with no invalidate()
\* acting on them until it settled, invoked the evaluators of exactly the
\* nodes, among the node and its transitive dependencies, that were
\* unevaluated or invalidated when it was issued.
Undisturbed(c) ==
  /\ calls[c].owner = 0
  /\ Fulfilled(c)
  /\ calls[c].quiet
  /\ calls[c].invEnd = calls[c].invAt

Ran(c) ==
  {m \in Closure(calls[c].node) : calls[c].evEnd[m] > calls[c].evAt[m]}

NextAfterUpdate(c) ==
  /\ treeCalls[c].node = "B"
  /\ treeCalls[c].state = "fulfilled"
  /\ treeCalls[c].updatesAt > 0
  /\ treeCalls[c].updatesEnd = treeCalls[c].updatesAt
  /\ treeUpdates[treeCalls[c].updatesAt].status = "ready"
  /\ \A b \in TreeHostCalls :
       treeCalls[b].node = "B" /\ treeCalls[b].updatesAt = treeCalls[c].updatesAt
         => b >= c

\* C24: after a ready A changed its value and called markDependentsStale(),
\* the next evaluate() on the dependent B resolves with the text made from
\* A's updated value.
C24_DependentsRefresh ==
  \A c \in TreeHostCalls :
    NextAfterUpdate(c)
      => treeCalls[c].result = Text(treeUpdates[treeCalls[c].updatesAt].value)


\* The dependencies of the call's node that were unevaluated or invalidated
\* when the call was issued.
StaleBelow(c) == calls[c].staleAt \ {calls[c].node}

IsOrWraps(e, cause) == e = cause \/ e.sub = <<cause>>

\* The onEvaluated observer of n threw when cycle p resolved.
EvaluatedObserverThrew(n, p) ==
  /\ ObserverThrows("onEvaluated")
  /\ \E i \in DOMAIN evaluatedNotices[n] :
       evaluatedNotices[n][i].cycle = p /\ evaluatedNotices[n][i].kind = "value"

\* The onErrorableError observer of n threw in cycle p.
ErrorableObserverThrew(n, p) ==
  /\ ObserverThrows("onErrorableError")
  /\ \E i \in DOMAIN errorableNotices[n] : errorableNotices[n][i][2] = p

\* C26: an invalidate() that triggers an onInvalidated observer that throws
\* fails with the observer's exception; an evaluate() whose cycle triggered an
\* onEvaluated or onErrorableError observer that threw fails with the
\* observer's exception.
C26_ObserverFailuresPropagate ==
  /\ \A n \in Nodes :
       ( /\ onInvalidatedCallbacks[n] /\ ObserverThrows("onInvalidated")
         /\ InvalidateActs(status[n]) )
       => LET s == InvalidateOp(State, n, <<>>)
          IN s.threw /\ s.observerError = ObserverError(n, "onInvalidated")
  /\ \A c \in HostCalls :
       (calls[c].state # "waiting" /\ calls[c].promise # 0) =>
         LET n == calls[c].node
             p == calls[c].promise
         IN /\ EvaluatedObserverThrew(n, p) =>
                 /\ Rejected(c)
                 /\ IsOrWraps(calls[c].result, ObserverError(n, "onEvaluated"))
            /\ ErrorableObserverThrew(n, p) =>
                 /\ Rejected(c)
                 /\ IsOrWraps(calls[c].result, ObserverError(n, "onErrorableError"))


\* C27: a node has a stored error exactly when its status is errored; so
\* every step that takes a node out of errored (invalidate, destroy, a
\* successful evaluation) leaves it without a stored error.
C27_ErrorIffErrored ==
  \A n \in Nodes : error[n] # NoResult <=> status[n] = "errored"

\* B was errored, with the error its caller holds; after invalidate() and a
\* successful evaluation it is evaluated and stores no error.
C27_Witness ==
  \E c1, c2 \in HostCalls :
    /\ c1 < c2 /\ calls[c1].node = "B" /\ calls[c2].node = "B"
    /\ Rejected(c1) /\ calls[c1].result.tag = "reevaluation"
    /\ calls[c1].invEnd < calls[c2].invAt
    /\ Fulfilled(c2)
    /\ status["B"] = "evaluated" /\ error["B"] = NoResult


\* C28: a node holds an evaluation promise only while its status is
\* evaluating or evaluated.
C28_PromiseOnlyWhileCurrent ==
  \A n \in Nodes :
    evaluationPromise[n] # 0 => status[n] \in {"evaluating", "evaluated"}

\* C28, amended: a node holds no evaluation promise exactly until evaluate()
\* is first called on it, and the promise is never dropped afterwards; in
\* particular a node that is evaluating or evaluated holds one.
C28_PromiseKeptForever ==
  \A n \in Nodes :
    /\ evaluationPromise[n] = 0 <=> ~\E c \in DOMAIN calls : calls[c].node = n
    /\ status[n] \in {"evaluating", "evaluated"} => evaluationPromise[n] # 0

\* B was evaluated and then invalidated through A: it still holds the
\* fulfilled promise of its last cycle.
C28_Witness ==
  /\ status["B"] = "invalidated"
  /\ evaluationPromise["B"] # 0
  /\ promises[evaluationPromise["B"]].state = "fulfilled"


\* C29: b is among the dependents of a exactly when a is one of the declared
\* dependencies of b, in every state.
C29_EdgeSymmetry ==
  \A a, b \in Nodes :
    b \in Range(dependents[a]) <=> a \in Range(config.deps[b])

\* destroy() on the node has run to its end.
WasDestroyed(n) ==
  \E d \in DOMAIN destroyCalls :
    destroyCalls[d].node = n /\ destroyCalls[d].pc = "done"

\* C29, amended: the dependents of a node are those of its construction
\* until destroy() on the node has run, and none from then on; evaluate() and
\* invalidate() never change them, nor does destroy() on another node.
C29_EdgesUntilDestroyed ==
  \A a \in Nodes :
    dependents[a] = IF WasDestroyed(a) THEN <<>> ELSE Constructor(config, a)

\* A was destroyed and has no dependents left, while B still declares A as
\* its dependency.
C29_Witness ==
  /\ WasDestroyed("A") /\ ~WasDestroyed("B")
  /\ dependents["A"] = <<>>
  /\ "A" \in Range(config.deps["B"])


\* Every node of the graph propagates at once.
AllImmediate == \A n \in Nodes : ~Deferring(n)

\* The sequence is a path of the graph: each node is a dependency of the next.
IsPath(path) ==
  \A i \in 1..(Len(path) - 1) : path[i] \in Range(config.deps[path[i + 1]])

NoRepeats(path) ==
  \A i, j \in DOMAIN path : path[i] = path[j] => i = j

\* C30: with immediate propagation, the onInvalidated observer of a node, as
\* long as it is registered, is called once for each invalidation of the
\* node, when the node is already invalidated, with the path by which the
\* invalidation came: empty when invalidate() was called on the node itself,
\* and otherwise the nodes from the one invalidate() was called on up to a
\* dependency of the node, each a dependency of the next, none of them twice.
C30_CausalChain ==
  AllImmediate =>
    \A y \in Nodes :
      /\ onInvalidatedCallbacks[y] => Len(invalidatedChains[y]) = invalidations[y]
      /\ \A i \in DOMAIN invalidatedChains[y] :
           LET notice == invalidatedChains[y][i]
               path == Append(notice.callChain, y)
           IN /\ notice.status = "invalidated"
              /\ Head(path) \in config.invalidated
              /\ IsPath(path)
              /\ NoRepeats(path)

\* invalidate() on A of the chain reached C through B: the observer of A was
\* given the empty chain, that of B the chain A, that of C the chain A, B.
C30_Witness ==
  /\ IsChain
  /\ invalidatedChains["A"] = <<[callChain |-> <<>>, status |-> "invalidated"]>>
  /\ invalidatedChains["B"] = <<[callChain |-> <<"A">>, status |-> "invalidated"]>>
  /\ invalidatedChains["C"] = <<[callChain |-> <<"A", "B">>, status |-> "invalidated"]>>


\* The evaluator was invoked in cycle p.
Invoked(p) == promises[p].runs > 0

\* C31: a cycle issues the evaluate() of every declared dependency at once;
\* its evaluator is invoked only when all of them have settled, and is given,
\* for each dependency that was fulfilled, the result of that evaluate().
C31_LeavesFirst ==
  \A p \in DOMAIN promises :
    LET n == promises[p].node
        depCalls == promises[p].depCalls
    IN /\ promises[p].pc # "dead" => Len(depCalls) = Len(config.deps[n])
       /\ \A i \in DOMAIN depCalls : calls[depCalls[i]].owner = p
       /\ Invoked(p) =>
            \A i \in DOMAIN depCalls :
              /\ calls[depCalls[i]].state # "waiting"
              /\ calls[depCalls[i]].state = "fulfilled"
                   => promises[p].args[i] = calls[depCalls[i]].result

\* B, with its two dependencies A and C, had its evaluator invoked on the
\* results of both.
C31_Witness ==
  \E p \in DOMAIN promises :
    /\ promises[p].node = "B" /\ config.deps["B"] = <<"A", "C">>
    /\ Invoked(p)
    /\ \A i \in {1, 2} :
         /\ calls[promises[p].depCalls[i]].state = "fulfilled"
         /\ promises[p].args[i] = calls[promises[p].depCalls[i]].result
         /\ promises[p].args[i].tag = "value"


\* The calls of the onEvaluated observer of n for cycles that were rejected.
FailureNotices(n) ==
  {i \in DOMAIN evaluatedNotices[n] :
     promises[evaluatedNotices[n][i].cycle].state = "rejected"}

\* C32: when the onEvaluated observer of a node is told of a failed cycle,
\* the node is errored, and the error it is given is the one that the
\* callers awaiting that cycle are rejected with.
C32_FailureNotification ==
  \A n \in Nodes : \A i \in FailureNotices(n) :
    LET notice == evaluatedNotices[n][i]
    IN /\ notice.status = "errored"
       /\ \A c \in DOMAIN calls :
            (calls[c].promise = notice.cycle /\ Rejected(c))
              => calls[c].result = notice.result


\* The cycle in which the failure that rejected cycle p arose: p itself, or
\* the restart it awaited.
RECURSIVE FailedCycle(_)
FailedCycle(p) ==
  IF promises[p].failedAt = "nested" THEN FailedCycle(promises[p].child) ELSE p

\* Call c awaits, or awaited, a cycle that was rejected by its invalidation
\* callback.
AwaitsCallbackFailure(c) ==
  /\ calls[c].promise # 0
  /\ promises[FailedCycle(calls[c].promise)].failedAt = "hook"

CallbackFailures ==
  /\ \A p \in DOMAIN promises :
       promises[p].failedAt = "hook" =>
         /\ promises[p].runs = 0
         /\ promises[p].state = "rejected"
         /\ promises[p].awaiting \in Range(callbackCalls)
         /\ promises[p].result = HookError(promises[p].awaiting)
  /\ \A c \in DOMAIN calls :
       (Settled(c) /\ AwaitsCallbackFailure(c)) =>
         LET cause == HookError(promises[FailedCycle(calls[c].promise)].awaiting)
         IN /\ Rejected(c)
            /\ calls[c].result = ResourceReevaluationError(calls[c].node, c, cause)

\* C33: a cycle whose invalidation callback (stored by the previous successful
\* evaluator invocation) throws does not invoke the evaluator; each evaluate()
\* awaiting it is rejected with a ResourceReevaluationError whose cause is
\* what the callback threw, and when it is rejected the node is errored and
\* stores that error.
C33_TeardownFailure ==
  /\ []CallbackFailures
  /\ [][\A c \in DOMAIN calls :
          (AwaitsCallbackFailure(c) /\ ~Settled(c) /\ calls'[c].state # "waiting")
            => /\ status'[calls[c].node] = "errored"
               /\ error'[calls[c].node] = calls'[c].result]_vars

C33_Witness ==
  \E c \in HostCalls :
    /\ Settled(c)
    /\ AwaitsCallbackFailure(c)
    /\ status[calls[c].node] = "errored"
    /\ evaluatorCalls[calls[c].node] = 1


IsDiamond ==
  /\ config.deps["D"] = <<"B", "C">>
  /\ config.deps["B"] = <<"A">> /\ config.deps["C"] = <<"A">>
  /\ config.deps["A"] = <<>>

\* Host call c on D was issued before any evaluator of the graph had been
\* invoked, and no invalidate() acted on the graph before it settled.
FirstEvaluation(c) ==
  /\ c \in HostCalls /\ calls[c].node = "D"
  /\ Settled(c)
  /\ \A n \in Nodes : calls[c].evAt[n] = 0
  /\ calls[c].invEnd = 0

\* C34: in the diamond, an undisturbed evaluate() on D with nothing evaluated
\* yet is fulfilled after exactly one invocation of each of the four
\* evaluators, and the evaluators of B and C were both given the value of
\* that one invocation of A's.
C34_DiamondDedup ==
  IsDiamond =>
    \A c \in DOMAIN calls :
      FirstEvaluation(c) =>
        LET a == EvaluationResult("A", 1, <<>>)
        IN /\ \A n \in Nodes : calls[c].evEnd[n] = 1
           /\ Fulfilled(c)
           /\ calls[c].result =
                EvaluationResult("D", 1, <<EvaluationResult("B", 1, <<a>>),
                                           EvaluationResult("C", 1, <<a>>)>>)

C34_Witness ==
  /\ IsDiamond
  /\ \E c \in DOMAIN calls : FirstEvaluation(c) /\ Fulfilled(c)


\* The graph has only the default timing, no errorable dependency, and its
\* host destroys nothing.
PlainGraph ==
  /\ AllImmediate
  /\ \A n \in Nodes : config.errorables[n] = {}
  /\ config.destroyed = {}

DependentsOf(n) == {m \in Nodes : n \in Range(config.deps[m])}

\* C36: invalidate() on a node that is not destroyed, one of whose dependents
\* is, does not throw, and leaves every dependent that is not destroyed
\* invalidated or not yet evaluated.
C36_DestroyedDependentIgnored ==
  \A a \in Nodes :
    (/\ status[a] # "destroyed"
     /\ config.throws = {}
     /\ \E b \in DependentsOf(a) : status[b] = "destroyed")
      => LET after == InvalidateOp(State, a, <<>>)
         IN /\ ~after.threw
            /\ InvalidateActs(status[a]) =>
                 \A m \in DependentsOf(a) :
                   after.status[m] \in {"destroyed", "invalidated", "unevaluated"}


\* Host call c was issued before any evaluator of the graph had been invoked.
IssuedFirst(c) == c \in HostCalls /\ \A n \in Nodes : calls[c].evAt[n] = 0

\* C37: while no invalidate() of the host has acted, no node is invalidated,
\* whatever its timing, and an evaluate() issued before any evaluation is
\* fulfilled after a single invocation of the evaluator of its node.
C37_NoInvalidationNoPropagation ==
  hostInvalidates = 0 =>
    /\ \A n \in Nodes : invalidations[n] = 0
    /\ \A c \in DOMAIN calls :
         (IssuedFirst(c) /\ Fulfilled(c)) => calls[c].evEnd[calls[c].node] = 1


\* The nodes that depend on n, directly or through other nodes.
RECURSIVE TransitiveDependents(_)
TransitiveDependents(n) ==
  DependentsOf(n) \cup UNION {TransitiveDependents(m) : m \in DependentsOf(n)}

\* C38: invalidate() on a node x, in any reachable state, leaves the status,
\* the stored error, the stored promise and the invalidation callback of
\* every node that is neither x nor a transitive dependent of x as they were,
\* and invokes no evaluator and no invalidation callback.
C38_InvalidateFrame ==
  \A x \in Nodes :
    LET after == InvalidateOp(State, x, <<>>)
    IN /\ \A m \in Nodes \ ({x} \cup TransitiveDependents(x)) :
            /\ after.status[m] = status[m]
            /\ after.error[m] = error[m]
            /\ after.ep[m] = evaluationPromise[m]
            /\ after.hook[m] = invalidationCallback[m]
       /\ after.evcalls = evaluatorCalls
       /\ after.cbcalls = callbackCalls
       /\ after.teardowns = teardowns
       /\ after.queue = queue

\* invalidate() on B has acted while its dependency A was evaluated or errored.
C38_Witness ==
  /\ config.deps["B"] = <<"A">>
  /\ hostInvalidates = 1
  /\ status["B"] = "invalidated"
  /\ invalidations["A"] = 0
  /\ status["A"] \in {"evaluated", "errored"}


\* The invalidation callbacks returned by the evaluator invocations of n that
\* have returned.
ReturnedHooks(n) ==
  {Hook(n, promises[p].inv) :
     p \in {q \in DOMAIN promises :
              /\ promises[q].node = n /\ n \in config.hooks
              /\ promises[q].runs > 0
              /\ promises[q].pc \in {"nested", "done"}
              /\ promises[q].failedAt \notin {"evaluator", "hook"}}}

\* C39: when nothing is running any more, a destroyed node stores no
\* invalidation callback, and every callback its evaluator returned has been
\* invoked.
C39_NoHookLeaked ==
  \A n \in Nodes :
    (Quiescent /\ status[n] = "destroyed")
      => /\ invalidationCallback[n] = NoHook
         /\ ReturnedHooks(n) \subseteq Range(HookInvocations)


\* C40: every evaluate() the host issues is eventually fulfilled or rejected.
C40_EvaluateSettles ==
  \A c \in 1..LifecycleCalls :
    (c \in DOMAIN calls) ~> (c \in DOMAIN calls /\ Settled(c))

====
